---- MODULE Spec2Model ----
(***************************************************************************)
(* A model of swindon's replicated pub/sub fabric:                         *)
(*   - the control-plane HTTP codec   (src/chat/listener/codec.rs)         *)
(*   - the replication Watcher        (src/chat/replication/session.rs)    *)
(*   - the per-pool Processor indices the two feed                         *)
(*                                                                         *)
(* Strings are sequences of tokens: "/" and "." are the separator tokens,  *)
(* every other token is a word that contains neither.  An Option is a      *)
(* sequence of length at most one: <<>> is None, <<x>> is Some(x).         *)
(***************************************************************************)
EXTENDS Integers, Sequences, FiniteSets, TLC

(***************************************************************************)
(* Bounds of the model.                                                    *)
(***************************************************************************)
\* longest topic / namespace path, in segments, a request path carries
MaxTail == 2
\* replication connections (outgoing channels) ever created
MaxChans == 2

(***************************************************************************)
(* Option and string helpers.                                              *)
(***************************************************************************)
None == <<>>
Some(x) == <<x>>

Slash == "/"
Dot == "."

\* str::contains(char)
Contains(s, c) == \E i \in 1..Len(s) : s[i] = c

\* str::replace(from, to) for single characters
Replace(s, from, to) == [i \in 1..Len(s) |-> IF s[i] = from THEN to ELSE s[i]]

\* str::starts_with
StartsWith(s, p) == Len(s) >= Len(p) /\ SubSeq(s, 1, Len(p)) = p

\* index of the first occurrence of c in s, 0 when there is none
FirstIndex(s, c) ==
    IF Contains(s, c)
    THEN CHOOSE i \in 1..Len(s) : s[i] = c /\ \A j \in 1..(i - 1) : s[j] # c
    ELSE 0

\* str::splitn(n, c): at most n parts, the last one holding the rest unsplit
RECURSIVE SplitN(_, _, _)
SplitN(s, n, c) ==
    IF n <= 1 \/ ~Contains(s, c)
    THEN <<s>>
    ELSE LET i == FirstIndex(s, c)
         IN  <<SubSeq(s, 1, i - 1)>> \o SplitN(SubSeq(s, i + 1, Len(s)), n - 1, c)

\* Iterator::next() on the k-th call over the parts of a split
Nth(parts, k) == IF k <= Len(parts) THEN Some(parts[k]) ELSE None

RECURSIVE Join(_)
\* segments joined by "/"
Join(segs) ==
    IF Len(segs) = 0 THEN <<>>
    ELSE IF Len(segs) = 1 THEN segs[1]
    ELSE segs[1] \o <<Slash>> \o Join(Tail(segs))

(***************************************************************************)
(* Identifiers.                                                            *)
(***************************************************************************)
ServerIds == {"A", "B", "C"}
\* the nodes whose actors run in the model
Nodes == {"A", "B"}
Pools == {"p1", "p2"}
NoCid == -1

\* The text of a {cid} path segment and the PubCid(Cid, ServerId) it parses to.
PubCidText ==
    ("A-0" :> [cid |-> 0, srv |-> "A"]) @@ ("B-0" :> [cid |-> 0, srv |-> "B"]) @@
    ("A-1" :> [cid |-> 1, srv |-> "A"]) @@ ("B-1" :> [cid |-> 1, srv |-> "B"])

\* <PubCid as FromStr>::from_str(..).ok()
ParsePubCid(x) ==
    IF Len(x) = 1 /\ x[1] \in DOMAIN PubCidText THEN Some(PubCidText[x[1]]) ELSE None

\* <Topic as FromStr> / <Namespace as FromStr>: a dotted path with at least one
\* component, every component non-empty
ParseAtom(x) ==
    IF /\ Len(x) >= 1
       /\ x[1] # Dot
       /\ x[Len(x)] # Dot
       /\ \A i \in 1..(Len(x) - 1) : ~(x[i] = Dot /\ x[i + 1] = Dot)
       /\ ~Contains(x, Slash)
    THEN Some(x)
    ELSE None

\* <SessionId as FromStr>: an opaque non-empty string
ParseSessionId(x) == IF Len(x) >= 1 THEN Some(x) ELSE None

(***************************************************************************)
(* Request bodies, as serde_json::from_slice reads them.                   *)
(***************************************************************************)
Bodies == {"", "{\"k1\":{\"msg_counter\":5}}", "[\"u1\"]", "{"}
BodyLen(data) == IF data = "" THEN 0 ELSE 1
\* serde_json::from_slice::<Json>
JsonOk(data) == data \in {"{\"k1\":{\"msg_counter\":5}}", "[\"u1\"]"}
\* the bodies that are a Delta: a map of LatticeKey to Values
DeltaBodies ==
    {"{}",
     "{\"k1\":{\"msg_counter\":5}}",
     "{\"k1\":{\"msg_counter\":3}}",
     "{\"k1\":{\"msg_counter\":3,\"tags_set\":[\"y\"]}}",
     "{\"k1\":{\"tags_set\":[\"x\"]}}",
     "{\"k2\":{\"status_register\":[1,\"x\"]}}",
     "{\"k2\":{\"status_register\":[1,\"y\"]}}",
     "{\"k2\":{\"status_register\":[2,\"x\"]}}"}
\* serde_json::from_slice::<Delta>
DeltaOk(data) == data \in DeltaBodies
\* serde_json::from_slice::<Vec<SessionId>>
ListOk(data) == data \in {"[\"u1\"]"}

(***************************************************************************)
(* codec.rs: Route, State, Handler, Request.                               *)
(***************************************************************************)
NotFound == 404
BadRequest == 400
Forbidden == 403
NoContent == 204
InternalServerError == 500

Route(tag, cid, srv, name) == [tag |-> tag, cid |-> cid, srv |-> srv, name |-> name]
NoRoute == Route("-", NoCid, "", <<>>)

Query(route) == [tag |-> "Query", route |-> route, status |-> 0]
Done == [tag |-> "Done", route |-> NoRoute, status |-> 0]
Error(status) == [tag |-> "Error", route |-> NoRoute, status |-> status]

\* Route::has_body
has_body(route) ==
    CASE route.tag = "Subscribe" -> FALSE
      [] route.tag = "Unsubscribe" -> FALSE
      [] route.tag = "Publish" -> TRUE
      [] route.tag = "LatticeSubscribe" -> TRUE
      [] route.tag = "Detach" -> FALSE
      [] route.tag = "UsersSubscribe" -> TRUE
      [] route.tag = "UsersUpdate" -> TRUE
      [] route.tag = "UsersDetach" -> FALSE
      [] route.tag = "Lattice" -> TRUE

\* PathAtom without the test for a literal dot
PathAtom_allows_dot(x) == ParseAtom(Replace(x, Slash, Dot))

\* the closure of dispatch that reads a topic or namespace path
PathAtom(x) == IF ~Contains(x, Dot) THEN ParseAtom(Replace(x, Slash, Dot)) ELSE None

\* Option::and_then
AndThen(opt, F(_)) == IF opt = None THEN None ELSE F(opt[1])

\* the (method, cid, topic) match of the "subscriptions" arm
dispatch_subscriptions(method, cid, tail) ==
    LET topic == AndThen(tail, PathAtom)
    IN  IF method = "PUT" /\ cid # None /\ topic # None
        THEN Query(Route("Subscribe", cid[1].cid, cid[1].srv, topic[1]))
        ELSE IF method = "DELETE" /\ cid # None /\ topic # None
        THEN Query(Route("Unsubscribe", cid[1].cid, cid[1].srv, topic[1]))
        ELSE Error(NotFound)

\* the (method, cid, ns) match of the "lattices" arm
dispatch_lattices(method, cid, tail) ==
    LET ns == AndThen(tail, PathAtom)
    IN  IF ns # None /\ StartsWith(ns[1], <<"swindon", Dot>>)
        THEN Error(Forbidden)
        ELSE IF method = "PUT" /\ cid # None /\ ns # None
        THEN Query(Route("LatticeSubscribe", cid[1].cid, cid[1].srv, ns[1]))
        ELSE IF method = "DELETE" /\ cid # None /\ ns # None
        THEN Query(Route("Detach", cid[1].cid, cid[1].srv, ns[1]))
        ELSE Error(NotFound)

\* the (method, cid) match of the "users" arm
dispatch_users(method, cid) ==
    IF method = "PUT" /\ cid # None
    THEN Query(Route("UsersSubscribe", cid[1].cid, cid[1].srv, <<>>))
    ELSE IF method = "DELETE" /\ cid # None
    THEN Query(Route("UsersDetach", cid[1].cid, cid[1].srv, <<>>))
    ELSE Error(NotFound)

\* the (_, "connection", Some(tail)) arm
dispatch_connection(method, tail) ==
    LET p == SplitN(tail, 3, Slash)
        cid == AndThen(Nth(p, 1), ParsePubCid)
        middle == Nth(p, 2)
        rest == Nth(p, 3)
    IN  IF middle = Some(<<"subscriptions">>) THEN dispatch_subscriptions(method, cid, rest)
        ELSE IF middle = Some(<<"lattices">>) THEN dispatch_lattices(method, cid, rest)
        ELSE IF middle = Some(<<"users">>) THEN dispatch_users(method, cid)
        ELSE Error(NotFound)

\* the ("POST", "publish", Some(tail)) arm
dispatch_publish(tail) ==
    LET topic == PathAtom(tail)
    IN  IF topic # None THEN Query(Route("Publish", NoCid, "", topic[1]))
        ELSE Error(NotFound)

\* the ("POST", "lattice", Some(tail)) arm
dispatch_lattice(tail) ==
    LET ns == PathAtom(tail)
    IN  IF ns # None THEN Query(Route("Lattice", NoCid, "", ns[1]))
        ELSE Error(NotFound)

\* the ("PUT", "user", Some(tail)) arm
dispatch_user(tail) ==
    LET p == SplitN(tail, 3, Slash)
        session_id == AndThen(Nth(p, 1), ParseSessionId)
        page == Nth(p, 2)
    IN  IF page = Some(<<"users">>) /\ session_id # None
        THEN Query(Route("UsersUpdate", NoCid, "", session_id[1]))
        ELSE Error(NotFound)

\* Handler::dispatch
dispatch(path, method) ==
    LET iter == SplitN(path, 2, Slash)
        head == iter[1]
        tail == Nth(iter, 2)
    IN  IF head = <<"connection">> /\ tail # None THEN dispatch_connection(method, tail[1])
        ELSE IF method = "POST" /\ head = <<"publish">> /\ tail # None
        THEN dispatch_publish(tail[1])
        ELSE IF method = "POST" /\ head = <<"lattice">> /\ tail # None
        THEN dispatch_lattice(tail[1])
        ELSE IF method = "PUT" /\ head = <<"user">> /\ tail # None
        THEN dispatch_user(tail[1])
        ELSE Error(NotFound)

\* content_type::check_json over the request's headers
ContentTypes == {"Absent", "Valid", "Invalid"}

\* check_content_type that does not read weak_content_type
check_content_type_strict(q, content_type, weak_content_type) ==
    IF content_type = "Valid" THEN Query(q) ELSE Error(BadRequest)

\* the has_body arm of headers_received
check_content_type(q, content_type, weak_content_type) ==
    LET weak_type == IF weak_content_type = None THEN FALSE ELSE weak_content_type[1]
    IN  IF content_type \in {"Absent", "Invalid"} /\ weak_type THEN Query(q)
        ELSE IF content_type = "Absent" THEN Error(BadRequest)
        ELSE IF content_type = "Valid" THEN Query(q)
        ELSE Error(BadRequest)

\* <Handler as Dispatcher>::headers_received: the state of the new Request
headers_received(path, method, content_type, weak_content_type) ==
    IF path = None THEN Error(BadRequest)
    ELSE IF ~StartsWith(path[1], <<Slash, "v1", Slash>>) THEN Error(NotFound)
    ELSE LET st == dispatch(SubSeq(path[1], 4, Len(path[1])), method)
         IN  IF st.tag = "Query" /\ has_body(st.route)
             THEN check_content_type(st.route, content_type, weak_content_type)
             ELSE st
(***************************************************************************)
(* Action (to the Processor) and RemoteAction (to the replication queue).  *)
(* One record shape serves both: a local Action carries no server_id, and  *)
(* a field a variant does not have is empty.                               *)
(***************************************************************************)
Act(type, conn_id, server_id, name, data) ==
    [type |-> type, conn_id |-> conn_id, server_id |-> server_id,
     name |-> name, data |-> data]

\* what one call of data_received leaves behind: the new Request.state, the
\* Actions sent to wdata.processor and the RemoteActions sent to wdata.remote,
\* each in the order of the calls
Received(state, processor, remote) ==
    [state |-> state, processor |-> processor, remote |-> remote]

\* data_received_subscription with the RemoteAction sent before the body is looked at
data_received_subscription_eager(type, r, data, my_srv_id) ==
    Received(IF BodyLen(data) = 0 THEN Done ELSE Error(BadRequest),
        IF r.srv = my_srv_id /\ BodyLen(data) = 0
        THEN <<Act(type, r.cid, "", r.name, "")>> ELSE <<>>,
        <<Act(type, r.cid, r.srv, r.name, "")>>)

\* data_received_subscription without the test srv_id == my_srv_id
data_received_subscription_unguarded(type, r, data, my_srv_id) ==
    IF BodyLen(data) # 0 THEN Received(Error(BadRequest), <<>>, <<>>)
    ELSE Received(Done,
                  <<Act(type, r.cid, "", r.name, "")>>,
                  <<Act(type, r.cid, r.srv, r.name, "")>>)

\* State::Query(Subscribe(..)) and State::Query(Unsubscribe(..))
data_received_subscription(type, r, data, my_srv_id) ==
    IF BodyLen(data) = 0
    THEN Received(Done,
            IF r.srv = my_srv_id THEN <<Act(type, r.cid, "", r.name, "")>> ELSE <<>>,
            <<Act(type, r.cid, r.srv, r.name, "")>>)
    ELSE Received(Error(BadRequest), <<>>, <<>>)

\* State::Query(Publish(topic))
data_received_publish(r, data) ==
    IF JsonOk(data)
    THEN Received(Done,
            <<Act("Publish", NoCid, "", r.name, data)>>,
            <<Act("Publish", NoCid, "", r.name, data)>>)
    ELSE Received(Error(BadRequest), <<>>, <<>>)

\* data_received_lattice_subscribe without the srv_id == my_srv_id test
data_received_lattice_subscribe_unguarded(r, data, my_srv_id) ==
    IF DeltaOk(data)
    THEN Received(Done,
            <<Act("Lattice", NoCid, "", r.name, data),
              Act("Attach", r.cid, "", r.name, "")>>,
            <<Act("Lattice", NoCid, "", r.name, data),
              Act("Attach", r.cid, r.srv, r.name, "")>>)
    ELSE Received(Error(BadRequest), <<>>, <<>>)

\* State::Query(LatticeSubscribe(..)) that sends the Attach ahead of the Lattice
data_received_lattice_subscribe_attach_first(r, data, my_srv_id) ==
    IF DeltaOk(data)
    THEN Received(Done,
            (IF r.srv = my_srv_id
             THEN <<Act("Attach", r.cid, "", r.name, "")>> ELSE <<>>) \o
                <<Act("Lattice", NoCid, "", r.name, data)>>,
            <<Act("Attach", r.cid, r.srv, r.name, ""),
              Act("Lattice", NoCid, "", r.name, data)>>)
    ELSE Received(Error(BadRequest), <<>>, <<>>)

\* State::Query(LatticeSubscribe(PubCid(cid, srv_id), ns))
data_received_lattice_subscribe(r, data, my_srv_id) ==
    IF DeltaOk(data)
    THEN Received(Done,
            <<Act("Lattice", NoCid, "", r.name, data)>> \o
                (IF r.srv = my_srv_id
                 THEN <<Act("Attach", r.cid, "", r.name, "")>> ELSE <<>>),
            <<Act("Lattice", NoCid, "", r.name, data),
              Act("Attach", r.cid, r.srv, r.name, "")>>)
    ELSE Received(Error(BadRequest), <<>>, <<>>)

\* State::Query(Detach(PubCid(cid, srv_id), ns))
data_received_detach(r, data, my_srv_id) ==
    Received(Done,
        IF r.srv = my_srv_id THEN <<Act("Detach", r.cid, "", r.name, "")>> ELSE <<>>,
        <<Act("Detach", r.cid, r.srv, r.name, "")>>)

\* State::Query(Lattice(ns)) that sends the Delta to the peers only
data_received_lattice_remote_only(r, data) ==
    IF DeltaOk(data)
    THEN Received(Done, <<>>, <<Act("Lattice", NoCid, "", r.name, data)>>)
    ELSE Received(Error(BadRequest), <<>>, <<>>)

\* State::Query(Lattice(ns))
data_received_lattice(r, data) ==
    IF DeltaOk(data)
    THEN Received(Done,
            <<Act("Lattice", NoCid, "", r.name, data)>>,
            <<Act("Lattice", NoCid, "", r.name, data)>>)
    ELSE Received(Error(BadRequest), <<>>, <<>>)

\* State::Query(UsersSubscribe(PubCid(cid, srv_id)))
data_received_users_subscribe(r, data, my_srv_id) ==
    IF ListOk(data)
    THEN Received(Done,
            IF r.srv = my_srv_id
            THEN <<Act("AttachUsers", r.cid, "", <<>>, data)>> ELSE <<>>,
            <<Act("AttachUsers", r.cid, r.srv, <<>>, data)>>)
    ELSE Received(Error(BadRequest), <<>>, <<>>)

\* State::Query(UsersUpdate(session_id))
data_received_users_update(r, data) ==
    IF ListOk(data)
    THEN Received(Done,
            <<Act("UpdateUsers", NoCid, "", r.name, data)>>,
            <<Act("UpdateUsers", NoCid, "", r.name, data)>>)
    ELSE Received(Error(BadRequest), <<>>, <<>>)

\* State::Query(UsersDetach(PubCid(cid, srv_id)))
data_received_users_detach(r, data, my_srv_id) ==
    Received(Done,
        IF r.srv = my_srv_id THEN <<Act("DetachUsers", r.cid, "", <<>>, "")>> ELSE <<>>,
        <<Act("DetachUsers", r.cid, r.srv, <<>>, "")>>)

\* <Request as Codec>::data_received
data_received(query, data, my_srv_id) ==
    IF query.tag = "Error" THEN Received(Error(query.status), <<>>, <<>>)
    ELSE LET r == query.route
         IN  CASE r.tag = "Subscribe" ->
                    data_received_subscription("Subscribe", r, data, my_srv_id)
               [] r.tag = "Unsubscribe" ->
                    data_received_subscription("Unsubscribe", r, data, my_srv_id)
               [] r.tag = "Publish" -> data_received_publish(r, data)
               [] r.tag = "LatticeSubscribe" ->
                    data_received_lattice_subscribe(r, data, my_srv_id)
               [] r.tag = "Detach" -> data_received_detach(r, data, my_srv_id)
               [] r.tag = "Lattice" -> data_received_lattice(r, data)
               [] r.tag = "UsersSubscribe" ->
                    data_received_users_subscribe(r, data, my_srv_id)
               [] r.tag = "UsersUpdate" -> data_received_users_update(r, data)
               [] r.tag = "UsersDetach" -> data_received_users_detach(r, data, my_srv_id)

\* <Request as Codec>::start_response: the status written
start_response(state) == IF state.tag = "Error" THEN state.status ELSE NoContent
(***************************************************************************)
(* session.rs: the replication Watcher.                                    *)
(***************************************************************************)
PeerNames == {"b:8000", "c:8000"}

\* enum State
Connecting(deadline) == [tag |-> "Connecting", deadline |-> deadline, server_id |-> ""]
Connected(server_id) == [tag |-> "Connected", deadline |-> 0, server_id |-> server_id]

\* HashMap::insert and HashMap::remove
Insert(map, k, v) == (k :> v) @@ map
Remove(map, k) == [x \in DOMAIN map \ {k} |-> map[x]]
EmptyMap == <<>>

\* Message(SessionPoolName, RemoteAction)
Message(pool, action) == [pool |-> pool, action |-> action]
NoMessage == Message("", Act("-", NoCid, "", <<>>, ""))

\* config::Replication, as far as the Watcher reads it
Replication(cfg_peers, reconnect_timeout) ==
    [peers |-> cfg_peers, reconnect_timeout |-> reconnect_timeout]
NoCfg == Replication({}, 0)

\* enum ReplAction
ReplAttach(tx, server_id, peer) ==
    [kind |-> "Attach", tx |-> tx, server_id |-> server_id, peer |-> peer,
     msg |-> NoMessage, cfg |-> NoCfg]
Incoming(msg) ==
    [kind |-> "Incoming", tx |-> 0, server_id |-> "", peer |-> None,
     msg |-> msg, cfg |-> NoCfg]
Outgoing(msg) ==
    [kind |-> "Outgoing", tx |-> 0, server_id |-> "", peer |-> None,
     msg |-> msg, cfg |-> NoCfg]
Reconnect(cfg) ==
    [kind |-> "Reconnect", tx |-> 0, server_id |-> "", peer |-> None,
     msg |-> NoMessage, cfg |-> cfg]

\* RemotePool::send: the item put on the Watcher's queue
RemotePool_send(pool, action) == Outgoing(Message(pool, action))

\* From<RemoteAction> for Action: the server_id is dropped
into_action(action) == [action EXCEPT !.server_id = ""]

\* attach that keeps the link it finds for the ServerId, under another key
attach_keeps_old(w_peers, w_links, tx, server_id, peer) ==
    [peers |-> IF peer # None THEN Insert(w_peers, peer[1], Connected(server_id))
               ELSE w_peers,
     links |-> IF server_id \in DOMAIN w_links
               THEN Insert(w_links, "old", tx)
               ELSE Insert(w_links, server_id, tx)]

\* Watcher::attach: the new (peers, links)
attach(w_peers, w_links, tx, server_id, peer) ==
    [peers |-> IF peer # None THEN Insert(w_peers, peer[1], Connected(server_id))
               ELSE w_peers,
     links |-> Insert(w_links, server_id, tx)]

\* local_send with the test of the server_id turned round
local_send_drops_own(self_server_id, msg) ==
    IF /\ msg.action.type \in {"Subscribe", "Unsubscribe", "Attach", "Detach"}
       /\ self_server_id = msg.action.server_id
    THEN <<>>
    ELSE <<Message(msg.pool, into_action(msg.action))>>

\* local_send with the test of the server_id made for every variant
local_send_filters_all(self_server_id, msg) ==
    IF self_server_id # msg.action.server_id
    THEN <<>>
    ELSE <<Message(msg.pool, into_action(msg.action))>>

\* Watcher::local_send: what is sent to the Processor, as (pool, Action)
local_send(self_server_id, msg) ==
    IF /\ msg.action.type \in {"Subscribe", "Unsubscribe", "Attach", "Detach"}
       /\ self_server_id # msg.action.server_id
    THEN <<>>
    ELSE <<Message(msg.pool, into_action(msg.action))>>

\* serde_json::to_string(&msg) wrapped in Packet::Text
Packet_Text(msg) == [packet |-> "Text", json |-> msg]

\* remote_send without the loop that removes the links in to_delete
remote_send_keeps_dead(w_links, alive, msg) ==
    LET to_delete == {remote \in DOMAIN w_links : ~alive[w_links[remote]]}
    IN  [to_delete |-> to_delete,
         links |-> w_links,
         sent |-> {w_links[remote] : remote \in DOMAIN w_links \ to_delete}]

\* Watcher::remote_send: to_delete, the links kept and the channels the frame
\* was put on; alive says of each channel whether its receiver still exists
remote_send(w_links, alive, msg) ==
    LET to_delete == {remote \in DOMAIN w_links : ~alive[w_links[remote]]}
    IN  [to_delete |-> to_delete,
         links |-> [remote \in DOMAIN w_links \ to_delete |-> w_links[remote]],
         sent |-> {w_links[remote] : remote \in DOMAIN w_links \ to_delete}]

\* reconnect_delete that drops nothing
reconnect_delete_none(w_peers, w_links, settings) ==
    [peers |-> w_peers, links |-> w_links]

\* reconnect_delete that leaves the links alone
reconnect_delete_keeps_links(w_peers, w_links, settings) ==
    LET to_delete == {p \in DOMAIN w_peers : p \notin settings.peers}
    IN  [peers |-> [p \in DOMAIN w_peers \ to_delete |-> w_peers[p]],
         links |-> w_links]

\* Watcher::reconnect, first loop: peers no longer configured are dropped, and
\* the link of each one that was Connected
reconnect_delete(w_peers, w_links, settings) ==
    LET to_delete == {p \in DOMAIN w_peers : p \notin settings.peers}
        gone == {w_peers[p].server_id : p \in {q \in to_delete : w_peers[q].tag = "Connected"}}
    IN  [peers |-> [p \in DOMAIN w_peers \ to_delete |-> w_peers[p]],
         links |-> [r \in DOMAIN w_links \ gone |-> w_links[r]]]

\* the second loop dialling a Connecting peer again at its very deadline
reconnect_dials_strict(w_peers, w_links, peer, time_now) ==
    IF peer \notin DOMAIN w_peers THEN TRUE
    ELSE IF w_peers[peer].tag = "Connected"
    THEN w_peers[peer].server_id \notin DOMAIN w_links
    ELSE ~(w_peers[peer].deadline > time_now)

\* the second loop never dialling a peer it holds as Connected
reconnect_dials_unless_connected(w_peers, w_links, peer, time_now) ==
    IF peer \notin DOMAIN w_peers THEN TRUE
    ELSE IF w_peers[peer].tag = "Connected"
    THEN FALSE
    ELSE ~(w_peers[peer].deadline >= time_now)
\* Watcher::reconnect, second loop: whether the configured peer is dialled
reconnect_dials(w_peers, w_links, peer, time_now) ==
    IF peer \notin DOMAIN w_peers THEN TRUE
    ELSE IF w_peers[peer].tag = "Connected"
    THEN w_peers[peer].server_id \notin DOMAIN w_links
    ELSE ~(w_peers[peer].deadline >= time_now)

\* Watcher::reconnect: the new (peers, links) and the peers connect() is called for
reconnect(w_peers, w_links, settings, time_now) ==
    LET timeout == time_now + settings.reconnect_timeout
        kept == reconnect_delete(w_peers, w_links, settings)
        dialled == {p \in settings.peers : reconnect_dials(kept.peers, kept.links, p, time_now)}
    IN  [peers |-> [p \in DOMAIN kept.peers \cup dialled |->
                        IF p \in dialled THEN Connecting(timeout) ELSE kept.peers[p]],
         links |-> kept.links,
         dialled |-> dialled,
         timeout |-> timeout]
\* start_send with an Incoming message passed on to the links as well
start_send_rebroadcasts(w_peers, w_links, alive, self_server_id, time_now, item) ==
    LET same == [peers |-> w_peers, links |-> w_links, sent |-> {}, to_delete |-> {},
                 local |-> <<>>, dialled |-> {}, timeout |-> 0]
    IN  CASE item.kind = "Attach" ->
               LET a == attach(w_peers, w_links, item.tx, item.server_id, item.peer)
               IN  [same EXCEPT !.peers = a.peers, !.links = a.links]
          [] item.kind \in {"Incoming", "Outgoing"} ->
               LET r == remote_send(w_links, alive, item.msg)
               IN  [same EXCEPT !.links = r.links, !.sent = r.sent,
                                !.to_delete = r.to_delete,
                                !.local = IF item.kind = "Incoming"
                                          THEN local_send(self_server_id, item.msg)
                                          ELSE <<>>]
          [] item.kind = "Reconnect" ->
               LET r == reconnect(w_peers, w_links, item.cfg, time_now)
               IN  [same EXCEPT !.peers = r.peers, !.links = r.links,
                                !.dialled = r.dialled, !.timeout = r.timeout]

\* <Watcher as Sink>::start_send on one item: the new (peers, links), the
\* channels the frame was put on, the links deleted, what the Processor was
\* sent and the peers dialled
start_send(w_peers, w_links, alive, self_server_id, time_now, item) ==
    LET same == [peers |-> w_peers, links |-> w_links, sent |-> {}, to_delete |-> {},
                 local |-> <<>>, dialled |-> {}, timeout |-> 0]
    IN  CASE item.kind = "Attach" ->
               LET a == attach(w_peers, w_links, item.tx, item.server_id, item.peer)
               IN  [same EXCEPT !.peers = a.peers, !.links = a.links]
          [] item.kind = "Incoming" ->
               [same EXCEPT !.local = local_send(self_server_id, item.msg)]
          [] item.kind = "Outgoing" ->
               LET r == remote_send(w_links, alive, item.msg)
               IN  [same EXCEPT !.links = r.links, !.sent = r.sent,
                                !.to_delete = r.to_delete]
          [] item.kind = "Reconnect" ->
               LET r == reconnect(w_peers, w_links, item.cfg, time_now)
               IN  [same EXCEPT !.peers = r.peers, !.links = r.links,
                                !.dialled = r.dialled, !.timeout = r.timeout]

(***************************************************************************)
(* swindon_chat.rs: the WebSocket handler.                                 *)
(***************************************************************************)
SwitchingProtocol == 101
BackendError == 4000
ProtocolViolation == 4500
PoolClosed == 1011

\* the subprotocol of the chat
LatticeProto == "v1.swindon-lattice+json"

\* chat::good_status: a 4xx or 5xx status
good_status(s) == 400 <= s /\ s <= 599

\* ConnectionMessage, one record shape for all variants; FatalError carries a
\* MessageError, which is HttpError(status, data) or of another kind
Hello(session_id, d) ==
    [type |-> "Hello", session_id |-> session_id, kind |-> "", status |-> 0, data |-> d]
FatalError(kind, st, d) ==
    [type |-> "FatalError", session_id |-> "", kind |-> kind, status |-> st, data |-> d]
OtherMessage(type) ==
    [type |-> type, session_id |-> "", kind |-> "", status |-> 0, data |-> ""]

\* Packet::Text(json_encode(&msg)) for a ConnectionMessage
Frame(msg) == [frame |-> "message", msg |-> msg]
\* Packet::Text of the array ["fatal_error", error, data]
FatalFrame(error_kind, d) ==
    [frame |-> "fatal_error", msg |-> FatalError(error_kind, 0, d)]

\* choose_proto: Err(()) or Ok(proto)
choose_proto(protocols, allow_empty_subprotocol) ==
    IF Len(protocols) = 0
    THEN IF allow_empty_subprotocol THEN [ok |-> TRUE, proto |-> None]
         ELSE [ok |-> FALSE, proto |-> None]
    ELSE IF \E i \in 1..Len(protocols) : protocols[i] = LatticeProto
    THEN [ok |-> TRUE, proto |-> Some(LatticeProto)]
    ELSE [ok |-> TRUE, proto |-> None]

\* what serve returns: a WebsockReply, an error page, or the reply of the
\* handler of http-route
Reply(tag, st, proto, cid) == [tag |-> tag, status |-> st, proto |-> proto, cid |-> cid]
NoReply == Reply("-", 0, None, NoCid)

\* serve, cid being the Cid that Cid::new gives if it is called
serve(h, cid) ==
    CASE h.upgrade = "Some" ->
           LET p == choose_proto(h.protocols, h.allow_empty_subprotocol)
           IN  IF p.ok THEN Reply("WebsockReply", 0, p.proto, cid)
               ELSE Reply("ErrorPage", BadRequest, None, NoCid)
      [] h.upgrade = "None" ->
           IF h.http_route = "handler" THEN Reply("Handler", 0, None, NoCid)
           ELSE Reply("ErrorPage", NotFound, None, NoCid)
      [] h.upgrade = "Err" -> Reply("ErrorPage", BadRequest, None, NoCid)

\* rx.into_future(): nothing while the queue is empty and a sender is held,
\* else Ok with the first message, or with None once every sender is dropped
into_future(ch) ==
    IF ch.queue # <<>> THEN [tag |-> "Ok", msg |-> Some(Head(ch.queue))]
    ELSE IF ch.senders = {} THEN [tag |-> "Ok", msg |-> None]
    ELSE [tag |-> "NotReady", msg |-> None]

\* the socket: where its task is, the frames written to the client, the
\* close the closing loop sends
Sock(phase, frames, close) == [phase |-> phase, frames |-> frames, close |-> close]
Close(code, reason) == Some([code |-> code, reason |-> reason])
NoSock == Sock("-", <<>>, None)

\* hijack_then with every FatalError closed as a protocol violation
hijack_then_4500(result) ==
    IF result.tag = "Ok" /\ result.msg # None /\ result.msg[1].type = "Hello"
    THEN Sock("loop", <<Frame(result.msg[1])>>, None)
    ELSE IF result.tag = "Ok" /\ result.msg # None /\ result.msg[1].type = "FatalError"
    THEN Sock("closing", <<FatalFrame(result.msg[1].kind, "null")>>,
              Close(ProtocolViolation, "backend_error"))
    ELSE IF result.tag = "Ok"
    THEN Sock("panic", <<>>, None)
    ELSE Sock("closing", <<FatalFrame("pool_closed", "null")>>, Close(PoolClosed, ""))

\* the closure hijack hands to then(): what the task does with the result
\* of rx.into_future()
hijack_then(result) ==
    IF result.tag = "Ok" /\ result.msg # None /\ result.msg[1].type = "Hello"
    THEN Sock("loop", <<Frame(result.msg[1])>>, None)
    ELSE IF result.tag = "Ok" /\ result.msg # None /\ result.msg[1].type = "FatalError"
    THEN LET err == result.msg[1]
         IN  IF err.kind = "HttpError" /\ good_status(err.status)
             THEN Sock("closing", <<FatalFrame(err.kind, err.data)>>,
                       Close(err.status + BackendError, "backend_error"))
             ELSE Sock("closing", <<FatalFrame(err.kind, "null")>>,
                       Close(ProtocolViolation, "backend_error"))
    ELSE IF result.tag = "Ok"
    THEN Sock("panic", <<>>, None)
    ELSE Sock("closing", <<FatalFrame("pool_closed", "null")>>, Close(PoolClosed, ""))

\* the channel of a connection: the messages queued, the holders of a sender,
\* and every message that was ever sent on it
NoChannel == [queue |-> <<>>, senders |-> {}, sent |-> <<>>]
NoHandshake ==
    [upgrade |-> "-", protocols |-> <<>>, allow_empty_subprotocol |-> FALSE,
     http_route |-> "-"]

(***************************************************************************)
(* The lattice engine: Values, their merge and the diff of a merge.        *)
(***************************************************************************)
\* a _register carries a timestamp and a value
Reg(ts, val) == <<ts, val>>

\* the Delta a body is read as
ParseDelta(data) ==
    CASE data = "{\"k1\":{\"msg_counter\":5}}" -> ("k1" :> ("msg_counter" :> 5))
      [] data = "{\"k1\":{\"msg_counter\":3}}" -> ("k1" :> ("msg_counter" :> 3))
      [] data = "{\"k1\":{\"msg_counter\":3,\"tags_set\":[\"y\"]}}" ->
             ("k1" :> ("msg_counter" :> 3 @@ "tags_set" :> {"y"}))
      [] data = "{\"k1\":{\"tags_set\":[\"x\"]}}" -> ("k1" :> ("tags_set" :> {"x"}))
      [] data = "{\"k2\":{\"status_register\":[1,\"x\"]}}" ->
             ("k2" :> ("status_register" :> Reg(1, "x")))
      [] data = "{\"k2\":{\"status_register\":[1,\"y\"]}}" ->
             ("k2" :> ("status_register" :> Reg(1, "y")))
      [] data = "{\"k2\":{\"status_register\":[2,\"x\"]}}" ->
             ("k2" :> ("status_register" :> Reg(2, "x")))
      [] OTHER -> EmptyMap

\* the kind of a field of Values, which its suffix names
FieldKind(f) ==
    CASE f = "msg_counter" -> "counter"
      [] f = "tags_set" -> "set"
      [] f = "status_register" -> "register"
      [] OTHER -> "unknown"

\* the lexicographic order of the values the registers carry
StrLess(a, b) == a = "x" /\ b = "y"

\* a dominates b: the order each kind of field grows in
Dominates(kind, a, b) ==
    CASE kind = "counter" -> a >= b
      [] kind = "set" -> b \subseteq a
      [] kind = "register" -> a[1] > b[1] \/ (a[1] = b[1] /\ (a[2] = b[2] \/ StrLess(b[2], a[2])))
      [] OTHER -> a = b

\* merge of one field in which a register is overwritten by the one that comes later
merge_field_overwrite(kind, old, new) ==
    CASE kind = "counter" -> IF new > old THEN new ELSE old
      [] kind = "set" -> old \cup new
      [] kind = "register" -> new
      [] OTHER -> old

\* merge of one field: max of counters, union of sets, the register with the
\* later timestamp and, of two with one timestamp, the greater value
merge_field(kind, old, new) ==
    CASE kind = "counter" -> IF new > old THEN new ELSE old
      [] kind = "set" -> old \cup new
      [] kind = "register" ->
             IF new[1] > old[1] \/ (new[1] = old[1] /\ StrLess(old[2], new[2]))
             THEN new ELSE old
      [] OTHER -> old

\* merge of two Values, field by field
merge_values(old, new) ==
    [f \in DOMAIN old \cup DOMAIN new |->
        IF f \in DOMAIN old /\ f \in DOMAIN new
        THEN merge_field(FieldKind(f), old[f], new[f])
        ELSE IF f \in DOMAIN old THEN old[f] ELSE new[f]]

\* a diff that carries every field of the merged Values
diff_values_whole(old, merged) == merged

\* the fields of the merged Values that differ from what the cell held
diff_values(old, merged) ==
    [f \in {g \in DOMAIN merged : g \notin DOMAIN old \/ merged[g] # old[g]} |-> merged[f]]

\* the Values a map holds for a key
Cell(values, key) == IF key \in DOMAIN values THEN values[key] ELSE EmptyMap

\* a Delta merged into the values of a namespace: the new values and, per
\* key, the fields that changed
merge_delta(values, delta) ==
    LET merged == [k \in DOMAIN values \cup DOMAIN delta |->
                      merge_values(Cell(values, k), Cell(delta, k))]
        changed == {k \in DOMAIN delta : diff_values(Cell(values, k), merged[k]) # EmptyMap}
    IN  [values |-> merged,
         diff |-> [k \in changed |-> diff_values(Cell(values, k), merged[k])]]
(***************************************************************************)
(* connection.rs and the Processor of a session pool: the connections, the *)
(* indices over them and the handling of one Action.                       *)
(***************************************************************************)
\* the high-water mark of a connection's channel
HighWaterMark == 2

PoolCids == {0, 1}
SessionIds == {"u1"}
Topics == {<<"a">>}
Namespaces == {<<"chat">>}

\* ConnectionMessage, as the Processor sends it
ConnMsg(type, name, d, diff) == [type |-> type, name |-> name, data |-> d, diff |-> diff]
MsgHello(session_id) == ConnMsg("Hello", <<>>, session_id, EmptyMap)
MsgPublish(topic, d) == ConnMsg("Publish", topic, d, EmptyMap)
MsgLattice(namespace, upd) == ConnMsg("Lattice", namespace, "", upd)
MsgStopSock(reason) == ConnMsg("StopSock", <<>>, reason, EmptyMap)

\* NewConnection::new
NewConnection_new(conn_id) ==
    [tag |-> "Pending", cid |-> conn_id, session_id |-> "", topics |-> {},
     lattices |-> {}, users_lattice |-> FALSE, watching |-> {}, message_buffer |-> <<>>]

\* NewConnection::message
NewConnection_message(new, topic, d) ==
    [new EXCEPT !.message_buffer = Append(@, <<topic, d>>)]

\* associate that drops the buffer
associate_unflushed(new, session_id) ==
    [conn |-> [tag |-> "Active", cid |-> new.cid, session_id |-> session_id,
               topics |-> new.topics, lattices |-> new.lattices,
               users_lattice |-> Cardinality(new.watching) > 0,
               watching |-> {}, message_buffer |-> <<>>],
     sent |-> <<>>,
     users_lattice |-> new.watching]

\* associate that starts the Connection with no topics and no lattices
associate_fresh(new, session_id) ==
    [conn |-> [tag |-> "Active", cid |-> new.cid, session_id |-> session_id,
               topics |-> {}, lattices |-> {},
               users_lattice |-> Cardinality(new.watching) > 0,
               watching |-> {}, message_buffer |-> <<>>],
     sent |-> [i \in 1..Len(new.message_buffer) |->
                  MsgPublish(new.message_buffer[i][1], new.message_buffer[i][2])],
     users_lattice |-> new.watching]

\* NewConnection::associate: the Connection, what Connection::message sends
\* of the buffer, and the SessionIds the connection watches
associate(new, session_id) ==
    [conn |-> [tag |-> "Active", cid |-> new.cid, session_id |-> session_id,
               topics |-> new.topics, lattices |-> new.lattices,
               users_lattice |-> Cardinality(new.watching) > 0,
               watching |-> {}, message_buffer |-> <<>>],
     sent |-> [i \in 1..Len(new.message_buffer) |->
                  MsgPublish(new.message_buffer[i][1], new.message_buffer[i][2])],
     users_lattice |-> new.watching]

\* the state of a pool before any Action
EmptyPool ==
    [connections |-> EmptyMap,
     sessions |-> [s \in SessionIds |-> {}],
     topics |-> [t \in Topics |-> {}],
     lattices |-> [ns \in Namespaces |-> [values |-> EmptyMap, subscribers |-> {}]],
     watchers |-> {},
     channels |-> EmptyMap,
     emitted |-> <<>>]

\* the user-offline update of the users lattice
UserOffline(session_id) == [session_id |-> session_id, status |-> "offline"]

\* remove_connection that leaves the Cid among the users-lattice watchers
remove_connection_keeps_watcher(s, cid) ==
    IF cid \notin DOMAIN s.connections THEN s
    ELSE LET conn == s.connections[cid]
             left == IF conn.tag = "Active" THEN s.sessions[conn.session_id] \ {cid} ELSE {}
         IN  [s EXCEPT
                !.connections = Remove(@, cid),
                !.sessions = IF conn.tag = "Active"
                             THEN [@ EXCEPT ![conn.session_id] = left] ELSE @,
                !.topics = [t \in Topics |-> @[t] \ {cid}],
                !.lattices = [ns \in Namespaces |->
                                 [@[ns] EXCEPT !.subscribers = @ \ {cid}]],
                !.emitted = IF conn.tag = "Active" /\ left = {}
                            THEN Append(@, UserOffline(conn.session_id)) ELSE @]

\* the connection is taken out of connections and of every index; when it was
\* the last of its session the user-offline update is emitted
remove_connection(s, cid) ==
    IF cid \notin DOMAIN s.connections THEN s
    ELSE LET conn == s.connections[cid]
             left == IF conn.tag = "Active" THEN s.sessions[conn.session_id] \ {cid} ELSE {}
         IN  [s EXCEPT
                !.connections = Remove(@, cid),
                !.sessions = IF conn.tag = "Active"
                             THEN [@ EXCEPT ![conn.session_id] = left] ELSE @,
                !.topics = [t \in Topics |-> @[t] \ {cid}],
                !.lattices = [ns \in Namespaces |->
                                 [@[ns] EXCEPT !.subscribers = @ \ {cid}]],
                !.watchers = @ \ {cid},
                !.emitted = IF conn.tag = "Active" /\ left = {}
                            THEN Append(@, UserOffline(conn.session_id)) ELSE @]

\* deliver that sends to a Pending connection as to an Active one
deliver_to_pending(s, cid, msg) ==
    IF cid \notin DOMAIN s.connections THEN s
    ELSE LET q == Append(s.channels[cid], msg)
         IN  IF Len(q) > HighWaterMark
             THEN remove_connection(
                      [s EXCEPT !.channels[cid] = Append(q, MsgStopSock("Overloaded"))], cid)
             ELSE [s EXCEPT !.channels[cid] = q]

\* deliver that stops a connection past the high-water mark and keeps it
deliver_keeps_overloaded(s, cid, msg) ==
    IF cid \notin DOMAIN s.connections THEN s
    ELSE IF s.connections[cid].tag = "Pending"
    THEN IF msg.type = "Publish"
         THEN [s EXCEPT !.connections[cid] = NewConnection_message(@, msg.name, msg.data)]
         ELSE s
    ELSE LET q == Append(s.channels[cid], msg)
         IN  IF Len(q) > HighWaterMark
             THEN [s EXCEPT !.channels[cid] = Append(q, MsgStopSock("Overloaded"))]
             ELSE [s EXCEPT !.channels[cid] = q]

\* one message for a connection: a Pending connection buffers a Publish, an
\* Active one is sent the message, and is stopped and removed when that
\* leaves more than the high-water mark undelivered
deliver(s, cid, msg) ==
    IF cid \notin DOMAIN s.connections THEN s
    ELSE IF s.connections[cid].tag = "Pending"
    THEN IF msg.type = "Publish"
         THEN [s EXCEPT !.connections[cid] = NewConnection_message(@, msg.name, msg.data)]
         ELSE s
    ELSE LET q == Append(s.channels[cid], msg)
         IN  IF Len(q) > HighWaterMark
             THEN remove_connection(
                      [s EXCEPT !.channels[cid] = Append(q, MsgStopSock("Overloaded"))], cid)
             ELSE [s EXCEPT !.channels[cid] = q]

\* the message delivered to each of the connections, in the order of their Cids
RECURSIVE fan_out(_, _, _)
fan_out(s, cids, msg) ==
    IF cids = {} THEN s
    ELSE LET c == CHOOSE x \in cids : \A y \in cids : x <= y
         IN  fan_out(deliver(s, c, msg), cids \ {c}, msg)

\* Subscribe: the topic index and the set of the connection; an Action for a
\* Cid that is not in connections is dropped
subscribe(s, cid, topic) ==
    IF cid \in DOMAIN s.connections
    THEN [s EXCEPT !.topics[topic] = @ \cup {cid},
                   !.connections[cid].topics = @ \cup {topic}]
    ELSE s

\* Unsubscribe that takes the Cid out of the topic index only
unsubscribe_index_only(s, cid, topic) ==
    IF cid \in DOMAIN s.connections
    THEN [s EXCEPT !.topics[topic] = @ \ {cid}]
    ELSE s

\* Unsubscribe
unsubscribe(s, cid, topic) ==
    IF cid \in DOMAIN s.connections
    THEN [s EXCEPT !.topics[topic] = @ \ {cid},
                   !.connections[cid].topics = @ \ {topic}]
    ELSE s

\* the time a connection is given to be authorized
AuthTimeout == 1

MsgFatalError(kind) == ConnMsg("FatalError", <<>>, kind, EmptyMap)

\* the authorization timeout closing the connection whatever its state
auth_timeout_any(s, cid) ==
    IF cid \in DOMAIN s.connections
    THEN remove_connection(
             [s EXCEPT !.emitted = <<>>,
                       !.channels[cid] = @ \o <<MsgFatalError("AuthTimeout"),
                                                MsgStopSock("AuthTimeout")>>], cid)
    ELSE [s EXCEPT !.emitted = <<>>]

\* the authorization timeout of a connection has passed: one that is still
\* Pending is sent FatalError, stopped (NewConnection::stop) and removed
auth_timeout(s, cid) ==
    IF cid \in DOMAIN s.connections /\ s.connections[cid].tag = "Pending"
    THEN remove_connection(
             [s EXCEPT !.emitted = <<>>,
                       !.channels[cid] = @ \o <<MsgFatalError("AuthTimeout"),
                                                MsgStopSock("AuthTimeout")>>], cid)
    ELSE [s EXCEPT !.emitted = <<>>]

\* the lists of SessionIds an AttachUsers carries
ParseUsers(data) == IF data = "[\"u1\"]" THEN {"u1"} ELSE {}

\* the Processor handles one Action
Pool_handle(pool_state, action) ==
    LET s == [pool_state EXCEPT !.emitted = <<>>]
        cid == action.conn_id
        known == cid \in DOMAIN s.connections
    IN  CASE action.type = "NewConnection" ->
               [s EXCEPT !.connections = Insert(@, cid, NewConnection_new(cid)),
                         !.channels = Insert(@, cid, <<>>)]
          [] action.type = "Associate" ->
               IF known /\ s.connections[cid].tag = "Pending"
               THEN LET a == associate(s.connections[cid], action.data)
                    IN  [s EXCEPT
                           !.connections[cid] = a.conn,
                           !.sessions[action.data] = @ \cup {cid},
                           !.channels[cid] = (@ \o <<MsgHello(action.data)>>) \o a.sent]
               ELSE s
          [] action.type = "Disconnect" -> remove_connection(s, cid)
          [] action.type = "Subscribe" -> subscribe(s, cid, action.name)
          [] action.type = "Unsubscribe" -> unsubscribe(s, cid, action.name)
          [] action.type = "Publish" ->
               fan_out(s, s.topics[action.name], MsgPublish(action.name, action.data))
          [] action.type = "Attach" ->
               IF known
               THEN deliver([s EXCEPT !.lattices[action.name].subscribers = @ \cup {cid},
                                      !.connections[cid].lattices = @ \cup {action.name}],
                            cid, MsgLattice(action.name, s.lattices[action.name].values))
               ELSE s
          [] action.type = "Detach" ->
               IF known
               THEN [s EXCEPT !.lattices[action.name].subscribers = @ \ {cid},
                              !.connections[cid].lattices = @ \ {action.name}]
               ELSE s
          [] action.type = "Lattice" ->
               LET m == merge_delta(s.lattices[action.name].values, ParseDelta(action.data))
                   merged == [s EXCEPT !.lattices[action.name].values = m.values]
               IN  IF m.diff = EmptyMap THEN merged
                   ELSE fan_out(merged, s.lattices[action.name].subscribers,
                                MsgLattice(action.name, m.diff))
          [] action.type = "AttachUsers" ->
               IF known
               THEN [s EXCEPT !.watchers = @ \cup {cid},
                              !.connections[cid].watching =
                                  IF s.connections[cid].tag = "Pending"
                                  THEN ParseUsers(action.data) ELSE @,
                              !.connections[cid].users_lattice =
                                  IF s.connections[cid].tag = "Active" THEN TRUE ELSE @]
               ELSE s
          [] action.type = "DetachUsers" ->
               IF known
               THEN [s EXCEPT !.watchers = @ \ {cid},
                              !.connections[cid].watching = {},
                              !.connections[cid].users_lattice = FALSE]
               ELSE s
          [] OTHER -> s
(***************************************************************************)
(* cid.rs: Cid::new and its process-wide COUNTER.                          *)
(***************************************************************************)
\* the threads that make connections
Threads == {"t1", "t2", "t3"}

\* the calls of Cid::new a thread makes
MaxCalls == 2

\* a COUNTER that is read and left as it was
fetch_add_none(counter) == [old |-> counter, new |-> counter]

\* COUNTER.fetch_add(1, Ordering::Relaxed), one atomic step: the value read
\* and the value left, which wraps at 2^64, far above what MaxCalls calls
\* of each thread reach from 0
fetch_add(counter) == [old |-> counter, new |-> counter + 1]

(***************************************************************************)
(* router.rs: the Router, from the head of a request to its codec.         *)
(***************************************************************************)
\* the Host headers and the paths of the requests; a request may have neither
RouterHosts == {None, Some("a.example"), Some("b.example")}
RouterPaths == {None, Some("/"), Some("/chat"), Some("/js/app.js")}

\* what routing::route finds for a host and a path
RouteNames == {"files", "chat"}

\* the Router with no request
NoRouting ==
    [pc |-> "idle", host |-> None, path |-> "", route |-> None, check |-> "",
     handler_called |-> FALSE, result |-> "", status |-> 0]

\* headers.path().unwrap_or("/")
PathOrRoot(path) == IF path = None THEN "/" ELSE path[1]

\* parsed_host.and_then(|host| route(host, &path, &cfg.routing)): found is
\* what route returns for the host
matched_route(host, found) == IF host = None THEN None ELSE found

\* a match on the authorizer's answer that lets a denied request through
authorize_lenient(check) ==
    CASE check = "allow" -> [tag |-> "Serve", status |-> 0]
      [] check = "deny" -> [tag |-> "Serve", status |-> 0]
      [] OTHER -> [tag |-> "Fallback", status |-> 0]

\* match route.authorizer.check(&mut inp)
authorize(check) ==
    CASE check = "allow" -> [tag |-> "Serve", status |-> 0]
      [] check = "deny" -> [tag |-> "Page", status |-> Forbidden]
      [] OTHER -> [tag |-> "Fallback", status |-> 0]

(***************************************************************************)
(* files.rs: the path of the file that serve_dir opens for a request.      *)
(* A string is the sequence of its characters, buf the sequence of bytes.  *)
(***************************************************************************)
\* the components a request path is made of
MaxComponents == 2

\* Status::Ok
StatusOk == 200

\* the bytes of the characters the requests are written with; "NUL" is the
\* character of byte 0
Ord ==
    ("NUL" :> 0) @@ ("#" :> 35) @@ ("%" :> 37) @@ ("." :> 46) @@ ("/" :> 47) @@
    ("0" :> 48) @@ ("2" :> 50) @@ ("8" :> 56) @@ (":" :> 58) @@ ("?" :> 63) @@
    ("E" :> 69) @@ ("a" :> 97) @@ ("b" :> 98) @@ ("e" :> 101) @@ ("f" :> 102) @@
    ("g" :> 103)

\* str::as_bytes
as_bytes(s) == [i \in 1..Len(s) |-> Ord[s[i]]]

\* str::ends_with
EndsWith(s, p) == Len(s) >= Len(p) /\ SubSeq(s, Len(s) - Len(p) + 1, Len(s)) = p

\* str::split("/")
Split(s) == SplitN(s, Len(s) + 1, Slash)

\* path.find(|c| c == '?' || c == '#') and the slice before it
BeforeQuery(s) ==
    LET found == {i \in 1..Len(s) : s[i] \in {"?", "#"}}
    IN  IF found = {} THEN s
        ELSE SubSeq(s, 1, (CHOOSE i \in found : \A j \in found : i <= j) - 1)

\* from_hex(b): b & 0x0f is b % 16
from_hex(b) ==
    IF b \in 48..57 THEN Some(b % 16)
    ELSE IF b \in 97..102 \/ b \in 65..70 THEN Some((b % 16) + 9)
    ELSE None

RECURSIVE decode_bytes(_, _)
\* the loop of decode_component over the bytes left in chariter
decode_bytes(buf, bytes) ==
    IF bytes = <<>> THEN Some(buf)
    ELSE IF bytes[1] = Ord["%"]
    THEN IF Len(bytes) < 3 THEN None
         ELSE LET h == from_hex(bytes[2])
                  l == from_hex(bytes[3])
              IN  IF h = None \/ l = None THEN None
                  ELSE LET b == (h[1] * 16) + l[1]
                       IN  IF b = 0 \/ b = Ord["/"] THEN None
                           ELSE decode_bytes(Append(buf, b),
                                             SubSeq(bytes, 4, Len(bytes)))
    ELSE IF bytes[1] = 0 THEN None
    ELSE decode_bytes(Append(buf, bytes[1]), Tail(bytes))

\* decode_component(&mut buf, component): None is Err(()), Some(buf) is
\* Ok(()) with the buf it leaves
decode_component(buf, component) == decode_bytes(buf, as_bytes(component))

\* the components the loop of path skips, and the ones it refuses
CurrentDir == {<<>>, <<".">>, <<"%", "2", "e">>, <<"%", "2", "E">>}
ParentDir ==
    {<<".", ".">>, <<"%", "2", "e", ".">>, <<"%", "2", "E", ".">>,
     <<".", "%", "2", "e">>, <<".", "%", "2", "E">>,
     <<"%", "2", "e", "%", "2", "e">>, <<"%", "2", "E", "%", "2", "e">>,
     <<"%", "2", "e", "%", "2", "E">>, <<"%", "2", "E", "%", "2", "E">>}

RECURSIVE push_components(_, _)
\* for cmp in path.split("/")
push_components(buf, cmps) ==
    IF cmps = <<>> THEN Some(buf)
    ELSE IF cmps[1] \in CurrentDir THEN push_components(buf, Tail(cmps))
    ELSE IF cmps[1] \in ParentDir THEN None
    ELSE LET pushed == IF Len(buf) > 0 THEN Append(buf, Ord["/"]) ELSE buf
             decoded == decode_component(pushed, cmps[1])
         IN  IF decoded = None THEN None
             ELSE push_components(decoded[1], Tail(cmps))

\* the name path takes from the Host header in with_hostname mode: None is
\* Err(())
host_name(settings, host) ==
    IF Contains(host, Slash) THEN None
    ELSE LET colon == FirstIndex(host, ":")
             name == IF colon > 0 THEN SubSeq(host, 1, colon - 1) ELSE host
         IN  IF settings.strip_host_suffix = None THEN Some(name)
             ELSE LET suf == settings.strip_host_suffix[1]
                      final_dot == Len(name) - Len(suf) - 1
                  IN  IF Len(suf) >= Len(name) THEN None
                      ELSE IF ~EndsWith(name, suf) THEN None
                      ELSE IF name[final_dot + 1] # Dot THEN None
                      ELSE Some(SubSeq(name, 1, final_dot))

RECURSIVE from_utf8(_)
\* whether from_utf8(&buf) is Ok: each lead byte with its continuation bytes
from_utf8(buf) ==
    IF buf = <<>> THEN TRUE
    ELSE LET b == buf[1]
             more == IF b < 128 THEN 0
                     ELSE IF b \in 194..223 THEN 1
                     ELSE IF b \in 224..239 THEN 2
                     ELSE IF b \in 240..244 THEN 3
                     ELSE -1
         IN  /\ more >= 0
             /\ Len(buf) > more
             /\ \A i \in 2..(more + 1) : buf[i] \in 128..191
             /\ from_utf8(SubSeq(buf, more + 2, Len(buf)))

\* path(settings, inp): Err(()), or Ok(settings.path.join(rel)) with the
\* bytes of rel, or the panic of the assert
path(settings, inp) ==
    LET raw == IF settings.mode = "relative_to_route" THEN inp.suffix
               ELSE IF inp.path = None THEN <<Slash>> ELSE inp.path[1]
        name == IF settings.mode # "with_hostname" THEN Some(<<>>)
                ELSE IF inp.host = None THEN None
                ELSE host_name(settings, inp.host[1])
        buf == IF name = None THEN None
               ELSE push_components(as_bytes(name[1]), Split(BeforeQuery(raw)))
    IN  IF buf = None THEN [tag |-> "Err", rel |-> <<>>]
        ELSE IF Len(buf[1]) > 0 /\ buf[1][1] = Ord["/"]
        THEN [tag |-> "Panic", rel |-> <<>>]
        ELSE IF ~from_utf8(buf[1]) THEN [tag |-> "Err", rel |-> <<>>]
        ELSE [tag |-> "Ok", rel |-> buf[1]]

\* the request and the settings of the handler, before any request
NoFiles ==
    [pc |-> "idle",
     settings |-> [mode |-> "relative_to_route", strip_host_suffix |-> None],
     inp |-> [host |-> None, path |-> None, suffix |-> <<>>],
     result |-> [tag |-> "", rel |-> <<>>], status |-> 0]
(***************************************************************************)
(* The state.                                                              *)
(***************************************************************************)
VARIABLES
    req,                \* the HTTP request at the codec: method, path, headers
    weak_content_type,  \* settings.weak_content_type, an Option<bool>
    phase,              \* where the codec is with the request
    state,              \* Request.state
    status,             \* the status start_response wrote, 0 before
    data,               \* the body handed to data_received
    processor,          \* per node, the Processor's queue of (pool, Action)
    rx,                 \* per node, the Watcher's queue of ReplAction
    peers,              \* per node, Watcher.peers
    links,              \* per node, Watcher.links
    chans,              \* the outgoing channels ever created
    connecting,         \* the dials connect() started that have not ended
    now,                \* Instant::now()
    last,               \* the item the Watcher handled in the last step
    topics,             \* per node, the Processor's index of (Topic, Cid)
    conns,              \* per node, the channel of each connection it owns
    hist,               \* the requests the control planes have accepted
    handshake,          \* the upgrade request at the WebSocket handler, and its settings
    reply,              \* what serve answered the request with
    next_cid,           \* the COUNTER of Cid::new
    authorizing,        \* the Cids start_authorize was called for
    channel,            \* the connection channel: its queue and who holds a sender
    sock,               \* the client's socket: the frames written and the close
    loops,              \* the reconnect loops ReplicationSession::update has spawned
    reconnect_shutter,  \* ReplicationSession.reconnect_shutter: the loop it can stop
    pool,               \* per node, the state of the Processor of the pool
    applied,            \* per node, the Deltas posted to it, those its Processor has
                        \* merged, the newest of them, and what the merges have sent
    plast,              \* the Action a Processor handled in the last step
    pprev,              \* the Action handled before that one
    timers,             \* per node, the deadline of each authorization timeout
    callers,            \* per thread, where it is in Cid::new and the Cids it was returned
    routing,            \* the request at the Router: where start_request is with it and its outcome
    files               \* the request at serve_dir: its settings, its input, the path found and the answer

codecVars == <<req, weak_content_type, phase, state, status, data>>
queueVars == <<processor, rx>>
watcherVars == <<peers, links, chans, connecting, now, last>>
procVars == <<topics, conns, hist>>
chatVars == <<handshake, reply, next_cid, authorizing, channel, sock>>
sessVars == <<loops, reconnect_shutter>>
poolVars == <<pool, applied, plast, pprev, timers>>
cidVars == <<callers>>
routerVars == <<routing>>
fileVars == <<files>>
vars == <<codecVars, queueVars, watcherVars, procVars, chatVars, sessVars, poolVars, cidVars, routerVars, fileVars>>

\* the node the single-node specifications look at, and its listener's pool
Me == "A"
MyPool == "p1"

NoLast == [node |-> "", item |-> Incoming(NoMessage), sent |-> {}, to_delete |-> {},
           local |-> <<>>, dialled |-> {}, before |-> EmptyMap]
NoReq == [method |-> "", path |-> None, content_type |-> "Absent"]
NoPLast == [node |-> "", action |-> Act("-", NoCid, "", <<>>, ""), before |-> EmptyPool]

\* an OutgoingChannel of node owner, on a connection to dest that owner
\* dialled (outbound) or accepted
Chan(owner, dest, outbound) ==
    [owner |-> owner, dest |-> dest, outbound |-> outbound, alive |-> TRUE, buf |-> <<>>]

\* the connections each node owns; Cids are local to a process
LocalCids == {0}

Init ==
    /\ req = NoReq
    /\ weak_content_type = None
    /\ phase = "idle"
    /\ state = Error(InternalServerError)
    /\ status = 0
    /\ data = ""
    /\ processor = [n \in Nodes |-> <<>>]
    /\ rx = [n \in Nodes |-> <<>>]
    /\ peers = [n \in Nodes |-> EmptyMap]
    /\ links = [n \in Nodes |-> EmptyMap]
    /\ chans = <<>>
    /\ connecting = {}
    /\ now = 0
    /\ last = NoLast
    /\ topics = [n \in Nodes |-> {}]
    /\ conns = [n \in Nodes |-> [c \in LocalCids |-> <<>>]]
    /\ hist = [pubs |-> {}, subs |-> {}]
    /\ handshake = NoHandshake
    /\ reply = NoReply
    /\ next_cid = 0
    /\ authorizing = {}
    /\ channel = NoChannel
    /\ sock = NoSock
    /\ loops = <<>>
    /\ reconnect_shutter = None
    /\ pool = [n \in Nodes |-> EmptyPool]
    /\ applied = [n \in Nodes |-> [posted |-> {}, deltas |-> {}, last |-> "", sent |-> <<>>]]
    /\ plast = NoPLast
    /\ pprev = NoPLast
    /\ timers = [n \in Nodes |-> EmptyMap]
    /\ callers = [t \in Threads |-> [pc |-> "idle", fetched |-> 0, cids |-> <<>>]]
    /\ routing = NoRouting
    /\ files = NoFiles

(***************************************************************************)
(* The control-plane codec serving one request on node Me.                 *)
(***************************************************************************)
Methods == {"PUT", "DELETE", "POST", "GET"}

TopicSegs == {<<"a">>, <<"swindon">>, <<"a", Dot, "b">>, <<>>}
Tails == UNION {[1..k -> TopicSegs] : k \in 0..MaxTail}
CidSegs == {<<"A-0">>, <<"B-0">>, <<"x">>}
MiddleSegs == {<<"subscriptions">>, <<"lattices">>, <<"users">>, <<"x">>}

ConnectionPaths ==
    {Join(<<<<"connection">>, c, m>> \o t) : c \in CidSegs, m \in MiddleSegs, t \in Tails}
        \cup {<<"connection">>, <<"connection", Slash, "A-0">>}
HeadPaths ==
    {Join(<<<<h>>>> \o t) : h \in {"publish", "lattice", "x"}, t \in Tails}
UserPaths ==
    {Join(<<<<"user">>, s, m>> \o t) :
        s \in {<<"u1">>, <<>>}, m \in {<<"users">>, <<"x">>}, t \in Tails}
V1Paths == {<<Slash, "v1", Slash>> \o p : p \in ConnectionPaths \cup HeadPaths \cup UserPaths}
OtherPaths == {<<Slash, "v2", Slash>> \o p : p \in HeadPaths} \cup {<<Slash, "v1">>}
Paths == {Some(p) : p \in V1Paths \cup OtherPaths} \cup {None}

\* a request arrives: its head and the listener's setting
NewRequest ==
    /\ phase = "idle"
    /\ \E m \in Methods, p \in Paths, c \in ContentTypes :
          req' = [method |-> m, path |-> p, content_type |-> c]
    /\ weak_content_type' \in {None, Some(TRUE), Some(FALSE)}
    /\ phase' = "headers"
    /\ UNCHANGED <<state, status, data, queueVars, watcherVars, procVars, chatVars, sessVars, poolVars,
                   cidVars, routerVars, fileVars>>

HeadersReceived ==
    /\ phase = "headers"
    /\ state' = headers_received(req.path, req.method, req.content_type, weak_content_type)
    /\ phase' = "body"
    /\ UNCHANGED <<req, weak_content_type, status, data, queueVars, watcherVars, procVars, chatVars, sessVars, poolVars,
                   cidVars, routerVars, fileVars>>

DataReceived ==
    /\ phase = "body"
    /\ \E d \in Bodies :
          LET r == data_received(state, d, Me)
          IN  /\ data' = d
              /\ state' = r.state
              /\ processor' = [processor EXCEPT ![Me] =
                    @ \o [i \in 1..Len(r.processor) |-> Message(MyPool, r.processor[i])]]
              /\ rx' = [rx EXCEPT ![Me] =
                    @ \o [i \in 1..Len(r.remote) |-> RemotePool_send(MyPool, r.remote[i])]]
    /\ phase' = "response"
    /\ UNCHANGED <<req, weak_content_type, status, watcherVars, procVars, chatVars, sessVars, poolVars,
                   cidVars, routerVars, fileVars>>

StartResponse ==
    /\ phase = "response"
    /\ status' = start_response(state)
    /\ phase' = "end"
    /\ UNCHANGED <<req, weak_content_type, state, data, queueVars, watcherVars, procVars, chatVars, sessVars, poolVars,
                   cidVars, routerVars, fileVars>>

NextCodec == NewRequest \/ HeadersReceived \/ DataReceived \/ StartResponse

SpecCodec == Init /\ [][NextCodec]_vars
(***************************************************************************)
(* The Watcher of node Me fed arbitrary items.                             *)
(***************************************************************************)
\* the RemoteActions a peer or the local codec can put in an envelope
ConnActionTypes ==
    {"Subscribe", "Unsubscribe", "Attach", "Detach", "AttachUsers", "DetachUsers"}
PoolActionTypes == {"Publish", "Lattice", "UpdateUsers"}
RemoteActions ==
    {Act(t, 0, s, <<"a">>, "") : t \in ConnActionTypes, s \in {"A", "B"}}
        \cup {Act(t, NoCid, "", <<"a">>, "[\"u1\"]") : t \in PoolActionTypes}
Messages ==
    {Message("p1", a) : a \in {x \in RemoteActions : x.type \in ConnActionTypes}}
        \cup {Message(p, a) : p \in Pools,
                               a \in {x \in RemoteActions : x.type \in PoolActionTypes}}
\* the envelopes the local codecs hand the Watcher in this specification
OutMessages ==
    {Message("p1", Act("Publish", NoCid, "", <<"a">>, "[\"u1\"]")),
     Message("p1", Act("Subscribe", 0, "B", <<"a">>, ""))}
Configs == {Replication(ps, 1) : ps \in SUBSET PeerNames}

\* the channels of a sequence of channels whose receiver still exists
Alive(chs) == [c \in 1..Len(chs) |-> chs[c].alive]

\* the Watcher of node n handles item, the channels being chs: every effect
\* of start_send on the state
Handle(n, item, chs) ==
    LET r == start_send(peers[n], links[n], Alive(chs), n, now, item)
    IN  /\ peers' = [peers EXCEPT ![n] = r.peers]
        /\ links' = [links EXCEPT ![n] = r.links]
        /\ chans' = [c \in 1..Len(chs) |->
                        IF c \in r.sent
                        THEN [chs[c] EXCEPT !.buf = Append(@, Packet_Text(item.msg))]
                        ELSE chs[c]]
        /\ processor' = [processor EXCEPT ![n] = @ \o r.local]
        /\ last' = [node |-> n, item |-> item, sent |-> r.sent,
                    to_delete |-> r.to_delete, local |-> r.local, dialled |-> r.dialled,
                    before |-> peers[n]]

\* The Processor and the writers of the connections have taken everything the
\* Watcher sent.  The Watcher never reads its channels and its sends never
\* block, so it is fed its next item in such a state without loss.
Quiet == processor[Me] = <<>> /\ \A c \in 1..Len(chans) : chans[c].buf = <<>>

\* a connection to or from a peer is up: its channel is made and attached
RecvAttach ==
    /\ Quiet
    /\ Len(chans) < MaxChans
    /\ \E server_id \in ServerIds \ {Me}, peer \in {None} \cup {Some(p) : p \in PeerNames} :
          Handle(Me, ReplAttach(Len(chans) + 1, server_id, peer),
                 Append(chans, Chan(Me, server_id, peer # None)))
    /\ UNCHANGED <<codecVars, rx, connecting, now, procVars, chatVars, sessVars, poolVars, cidVars,
                   routerVars, fileVars>>

RecvIncoming ==
    /\ Quiet
    /\ \E msg \in Messages : Handle(Me, Incoming(msg), chans)
    /\ UNCHANGED <<codecVars, rx, connecting, now, procVars, chatVars, sessVars, poolVars, cidVars,
                   routerVars, fileVars>>

RecvOutgoing ==
    /\ Quiet
    /\ \E msg \in OutMessages : Handle(Me, Outgoing(msg), chans)
    /\ UNCHANGED <<codecVars, rx, connecting, now, procVars, chatVars, sessVars, poolVars, cidVars,
                   routerVars, fileVars>>

RecvReconnect ==
    /\ Quiet
    /\ \E cfg \in Configs : Handle(Me, Reconnect(cfg), chans)
    /\ UNCHANGED <<codecVars, rx, connecting, now, procVars, chatVars, sessVars, poolVars, cidVars,
                   routerVars, fileVars>>

\* the receiver of a channel goes away: the connection's writer ended
ChannelClosed ==
    /\ \E c \in 1..Len(chans) :
          /\ chans[c].alive
          /\ chans' = [chans EXCEPT ![c] = [@ EXCEPT !.alive = FALSE, !.buf = <<>>]]
    /\ last' = NoLast
    /\ UNCHANGED <<codecVars, queueVars, peers, links, connecting, now, procVars, chatVars, sessVars, poolVars,
                   cidVars, routerVars, fileVars>>

\* the writer of a connection takes the next frame off its channel
Transmit ==
    /\ \E c \in 1..Len(chans) :
          /\ chans[c].buf # <<>>
          /\ chans' = [chans EXCEPT ![c] = [@ EXCEPT !.buf = Tail(@)]]
    /\ last' = NoLast
    /\ UNCHANGED <<codecVars, queueVars, peers, links, connecting, now, procVars, chatVars, sessVars, poolVars,
                   cidVars, routerVars, fileVars>>

\* the Processor takes the next Action off its queue
ProcessorTake ==
    /\ processor[Me] # <<>>
    /\ processor' = [processor EXCEPT ![Me] = Tail(@)]
    /\ last' = NoLast
    /\ UNCHANGED <<codecVars, rx, peers, links, chans, connecting, now, procVars, chatVars, sessVars, poolVars,
                   cidVars, routerVars, fileVars>>

NextWatcher ==
    \/ RecvAttach \/ RecvIncoming \/ RecvOutgoing \/ RecvReconnect
    \/ ChannelClosed \/ Transmit \/ ProcessorTake

SpecWatcher == Init /\ [][NextWatcher]_vars

\* the Watcher of node Me with time passing between the items it handles
MaxTime == 2

\* Instant::now() grows
Tick ==
    /\ now < MaxTime
    /\ now' = now + 1
    /\ last' = NoLast
    /\ UNCHANGED <<codecVars, queueVars, peers, links, chans, connecting, procVars, chatVars, sessVars, poolVars,
                   cidVars, routerVars, fileVars>>

NextTimed == NextWatcher \/ Tick

SpecTimed == Init /\ [][NextTimed]_vars
(***************************************************************************)
(* The Watcher of node Me keeping its link to one configured peer: the     *)
(* reconnect loop ticks, dials end in a handshake, connections break.      *)
(***************************************************************************)
\* the peer of the configuration and the ServerId its handshake carries
RebuildPeer == "b:8000"
RebuildServer == "B"
RebuildCfg == Replication({RebuildPeer}, 1)

\* the Interval of the reconnect loop fires and the Watcher handles the
\* Reconnect it sends; connect() is called for the peers dialled
Reconnector ==
    /\ Quiet
    /\ Handle(Me, Reconnect(RebuildCfg), chans)
    /\ connecting' = connecting \cup last'.dialled
    /\ UNCHANGED <<codecVars, rx, now, procVars, chatVars, sessVars, poolVars, cidVars, routerVars,
                   fileVars>>

\* the dial of a peer ends in a handshake: connect() makes the channel of the
\* connection and the Watcher handles its Attach
DialSucceeds ==
    /\ Quiet
    /\ Len(chans) < MaxChans
    /\ \E p \in connecting :
          /\ Handle(Me, ReplAttach(Len(chans) + 1, RebuildServer, Some(p)),
                    Append(chans, Chan(Me, RebuildServer, TRUE)))
          /\ connecting' = connecting \ {p}
    /\ UNCHANGED <<codecVars, rx, now, procVars, chatVars, sessVars, poolVars, cidVars, routerVars,
                   fileVars>>

\* a connection breaks, while a channel can still be made for its replacement
LinkBreaks ==
    /\ Len(chans) < MaxChans
    /\ ChannelClosed

NextRebuild ==
    \/ Reconnector \/ DialSucceeds \/ LinkBreaks \/ Tick
    \/ RecvIncoming \/ RecvOutgoing \/ Transmit \/ ProcessorTake

\* The Watcher's queue is FIFO and its producers never block: the Reconnect
\* of a tick and the Attach of a handshake are handled however many Outgoing
\* items are queued around them.
SpecRebuild ==
    /\ Init /\ [][NextRebuild]_vars
    /\ SF_vars(Reconnector) /\ SF_vars(DialSucceeds)
    /\ WF_vars(Transmit) /\ WF_vars(ProcessorTake)
(***************************************************************************)
(* Two nodes, A and B: on each a control plane, a Watcher and a Processor, *)
(* and the replication connections between them.                           *)
(***************************************************************************)
\* the Processor's effect of one Action on (topics, connections); of the
\* Actions it handles, those on topics are modelled
Processor_handle(tp, cn, action) ==
    CASE action.type = "Subscribe" ->
           [topics |-> IF action.conn_id \in DOMAIN cn
                       THEN tp \cup {<<action.name, action.conn_id>>}
                       ELSE tp,
            conns |-> cn]
      [] action.type = "Unsubscribe" ->
           [topics |-> tp \ {<<action.name, action.conn_id>>}, conns |-> cn]
      [] action.type = "Publish" ->
           [topics |-> tp,
            conns |-> [c \in DOMAIN cn |->
                          IF <<action.name, c>> \in tp
                          THEN Append(cn[c], [type |-> "Publish", topic |-> action.name,
                                              data |-> action.data])
                          ELSE cn[c]]]
      [] OTHER -> [topics |-> tp, conns |-> cn]

\* the address a node is dialled at
PeerAddr(n) == IF n = "A" THEN "a:8000" ELSE "b:8000"

\* the requests the control planes are sent: subscribe a connection of A or
\* of B to the topic a, publish a body to the topic a
SubscribePath(pubcid) ==
    <<Slash, "v1", Slash, "connection", Slash, pubcid, Slash, "subscriptions", Slash, "a">>
PublishPath == <<Slash, "v1", Slash, "publish", Slash, "a">>
ClusterRequests ==
    {[method |-> "PUT", path |-> Some(SubscribePath(x)), content_type |-> "Absent",
      body |-> ""] : x \in {"A-0", "B-0"}}
        \cup {[method |-> "POST", path |-> Some(PublishPath), content_type |-> "Valid",
               body |-> d] : d \in {b \in Bodies : DeltaOk(b)}}

\* the channels of node n that its Watcher has attached
Attached(n) ==
    {c \in 1..Len(chans) :
        /\ chans[c].owner = n
        /\ \A i \in 1..Len(rx[n]) : ~(rx[n][i].kind = "Attach" /\ rx[n][i].tx = c)}

\* node n has a link to every other node
Peered(n) == \A m \in Nodes \ {n} : m \in DOMAIN links[n]

\* what hist keeps of a request accepted by node n
Accepted(n, q, route) ==
    IF route.tag = "Publish"
    THEN [hist EXCEPT !.pubs = @ \cup
            {[body |-> q.body, at |-> n, peered |-> Peered(n),
              attached |-> Attached(n),
              subs |-> [m \in Nodes |-> {c \in LocalCids : <<route.name, c>> \in topics[m]}]]}]
    ELSE [hist EXCEPT !.subs = @ \cup
            {[at |-> n, path |-> q.path, srv |-> route.srv, cid |-> route.cid,
              name |-> route.name, peered |-> Peered(n)]}]

\* the control plane of node n serves one request, from its head to its body;
\* every publish carries a body of its own and no subscribe is sent twice
HttpRequest(n) ==
    /\ \E q \in ClusterRequests :
          LET st == headers_received(q.path, q.method, q.content_type, None)
              r == data_received(st, q.body, n)
          IN  /\ \A p \in hist.pubs : p.body # q.body
              /\ \A x \in hist.subs : ~(x.at = n /\ x.path = q.path)
              /\ st.tag = "Query" /\ r.state.tag = "Done"
              /\ processor' = [processor EXCEPT ![n] =
                    @ \o [i \in 1..Len(r.processor) |-> Message(MyPool, r.processor[i])]]
              /\ rx' = [rx EXCEPT ![n] =
                    @ \o [i \in 1..Len(r.remote) |-> RemotePool_send(MyPool, r.remote[i])]]
              /\ hist' = Accepted(n, q, st.route)
    /\ last' = NoLast
    /\ UNCHANGED <<codecVars, peers, links, chans, connecting, now, topics, conns, chatVars, sessVars, poolVars,
                   cidVars, routerVars, fileVars>>

\* node n, which has not dialled node m before, dials it and the handshake
\* ends: each side makes a channel for the connection and hands it to its
\* Watcher
Connect(n, m) ==
    /\ \A c \in 1..Len(chans) : ~(chans[c].owner = n /\ chans[c].dest = m /\ chans[c].outbound)
    /\ chans' = chans \o <<Chan(n, m, TRUE), Chan(m, n, FALSE)>>
    /\ rx' = [rx EXCEPT
                ![n] = Append(@, ReplAttach(Len(chans) + 1, m, Some(PeerAddr(m)))),
                ![m] = Append(@, ReplAttach(Len(chans) + 2, n, None))]
    /\ last' = NoLast
    /\ UNCHANGED <<codecVars, processor, peers, links, connecting, now, procVars, chatVars, sessVars, poolVars,
                   cidVars, routerVars, fileVars>>

\* the Watcher of node n takes the next item off its queue
WatcherStep(n) ==
    /\ rx[n] # <<>>
    /\ rx' = [rx EXCEPT ![n] = Tail(@)]
    /\ Handle(n, Head(rx[n]), chans)
    /\ UNCHANGED <<codecVars, connecting, now, procVars, chatVars, sessVars, poolVars, cidVars,
                   routerVars, fileVars>>

\* the next frame of a channel crosses its connection: the far end reads it
\* and hands its Watcher the envelope
Deliver(c) ==
    /\ chans[c].buf # <<>>
    /\ chans[c].dest \in Nodes
    /\ chans' = [chans EXCEPT ![c] = [@ EXCEPT !.buf = Tail(@)]]
    /\ rx' = [rx EXCEPT ![chans[c].dest] = Append(@, Incoming(Head(chans[c].buf).json))]
    /\ last' = NoLast
    /\ UNCHANGED <<codecVars, processor, peers, links, connecting, now, procVars, chatVars, sessVars, poolVars,
                   cidVars, routerVars, fileVars>>

\* the Processor of node n takes the next Action off its queue and handles it
ProcessorStep(n) ==
    /\ processor[n] # <<>>
    /\ LET r == Processor_handle(topics[n], conns[n], Head(processor[n]).action)
       IN  /\ topics' = [topics EXCEPT ![n] = r.topics]
           /\ conns' = [conns EXCEPT ![n] = r.conns]
    /\ processor' = [processor EXCEPT ![n] = Tail(@)]
    /\ last' = NoLast
    /\ UNCHANGED <<codecVars, rx, peers, links, chans, connecting, now, hist, chatVars, sessVars, poolVars,
                   cidVars, routerVars, fileVars>>

NextCluster ==
    \/ HttpRequest(Me)
    \/ \E n \in Nodes : \E m \in Nodes \ {n} : Connect(n, m)
    \/ \E n \in Nodes : WatcherStep(n)
    \/ \E c \in 1..Len(chans) : Deliver(c)
    \/ \E n \in Nodes : ProcessorStep(n)

SpecCluster == Init /\ [][NextCluster]_vars
(***************************************************************************)
(* The reconnect loops of node Me as its configuration is reloaded.        *)
(***************************************************************************)
MaxUpdates == 2
MaxQueue == 2

\* the task update spawns: the Interval mapped to Reconnect(cfg), forwarded
\* to the Watcher's queue, selected with the receiver of the shutter
Loop(cfg) == [cfg |-> cfg, running |-> TRUE, shut |-> FALSE]

\* ReplicationSession::update: the shutter it holds is sent (), a new loop
\* is spawned and its shutter kept
update(session_loops, shutter, cfg) ==
    LET stopped == IF shutter = None THEN session_loops
                   ELSE [session_loops EXCEPT ![shutter[1]].shut = TRUE]
    IN  [loops |-> Append(stopped, Loop(cfg)),
         reconnect_shutter |-> Some(Len(session_loops) + 1)]

\* one poll of a loop's task.  Select polls the forward first: an Interval
\* that is due puts its Reconnect on the queue; then the shutter is polled
\* and ends the task when it was sent.
loop_poll(l, due) ==
    [sent |-> IF due THEN <<Reconnect(l.cfg)>> ELSE <<>>,
     running |-> ~l.shut]

\* the configuration is reloaded
Reload ==
    /\ Len(loops) < MaxUpdates
    /\ \E cfg \in Configs :
          LET u == update(loops, reconnect_shutter, cfg)
          IN  /\ loops' = u.loops
              /\ reconnect_shutter' = u.reconnect_shutter
    /\ last' = NoLast
    /\ UNCHANGED <<codecVars, queueVars, peers, links, chans, connecting, now,
                   procVars, chatVars, poolVars, cidVars, routerVars, fileVars>>

\* the task of loop i is notified, by its Interval or by its shutter, and polled
LoopPoll(i) ==
    /\ loops[i].running
    /\ \E due \in BOOLEAN :
          LET r == loop_poll(loops[i], due)
          IN  /\ due \/ loops[i].shut
              /\ Len(rx[Me]) + Len(r.sent) <= MaxQueue
              /\ rx' = [rx EXCEPT ![Me] = @ \o r.sent]
              /\ loops' = [loops EXCEPT ![i].running = r.running]
    /\ last' = NoLast
    /\ UNCHANGED <<codecVars, processor, peers, links, chans, connecting, now,
                   procVars, chatVars, reconnect_shutter, poolVars, cidVars, routerVars,
                   fileVars>>

NextReload ==
    \/ Reload
    \/ \E i \in 1..Len(loops) : LoopPoll(i)
    \/ WatcherStep(Me)

SpecReload == Init /\ [][NextReload]_vars
(***************************************************************************)
(* The Processor of node Me handling the Actions of the connector and of   *)
(* the control plane, and the writers of its connections.                  *)
(***************************************************************************)
\* the Publishes a Pending connection may hold in its buffer
MaxBuffered == 1

\* the Actions sent to the Processor: those on connections and Publish
PoolActions ==
    {Act(t, c, "", <<>>, "") : t \in {"NewConnection", "Disconnect", "DetachUsers"},
                               c \in PoolCids}
        \cup {Act("Associate", c, "", <<>>, u) : c \in PoolCids, u \in SessionIds}
        \cup {Act(t, c, "", n, "") : t \in {"Subscribe", "Unsubscribe"},
                                     c \in PoolCids, n \in Topics}
        \cup {Act(t, c, "", n, "") : t \in {"Attach", "Detach"},
                                     c \in PoolCids, n \in Namespaces}
        \cup {Act("AttachUsers", c, "", <<>>, "[\"u1\"]") : c \in PoolCids}
        \cup {Act("Publish", NoCid, "", n, "m") : n \in Topics}

\* what the senders of Actions keep to: a Cid is made once, by Cid::new, and
\* the buffers of the Pending connections are bounded
Sendable(n, a) ==
    /\ (a.type = "NewConnection") => a.conn_id \notin DOMAIN pool[n].channels
    /\ (a.type = "Publish") =>
          \A c \in DOMAIN pool[n].connections :
              Len(pool[n].connections[c].message_buffer) < MaxBuffered

\* the Processor of node n handles the Action a
Handles(n, a) ==
    /\ pool' = [pool EXCEPT ![n] = Pool_handle(@, a)]
    /\ plast' = [node |-> n, action |-> a, before |-> pool[n]]

PoolStep(n) ==
    /\ \E a \in PoolActions : Sendable(n, a) /\ Handles(n, a)
    /\ UNCHANGED <<codecVars, queueVars, watcherVars, procVars, chatVars, sessVars, applied, pprev, timers,
                   cidVars, routerVars, fileVars>>

\* the writer of a connection takes the next message off its channel
WriterTakes(n) ==
    /\ \E c \in DOMAIN pool[n].channels :
          /\ pool[n].channels[c] # <<>>
          /\ pool' = [pool EXCEPT ![n].channels[c] = Tail(@)]
    /\ plast' = NoPLast
    /\ UNCHANGED <<codecVars, queueVars, watcherVars, procVars, chatVars, sessVars, applied, pprev, timers,
                   cidVars, routerVars, fileVars>>

NextProcessor == PoolStep(Me) \/ WriterTakes(Me)

SpecProcessor == Init /\ [][NextProcessor]_vars
(***************************************************************************)
(* The Processor of node Me handling subscriptions as connections come and *)
(* go, with the two Actions it handled last remembered.                    *)
(***************************************************************************)
SubscriptionActions ==
    {a \in PoolActions :
        a.type \in {"NewConnection", "Associate", "Disconnect", "Subscribe", "Unsubscribe"}}

SubscriptionStep(n) ==
    /\ \E a \in SubscriptionActions : Sendable(n, a) /\ Handles(n, a)
    /\ pprev' = plast
    /\ UNCHANGED <<codecVars, queueVars, watcherVars, procVars, chatVars, sessVars, applied,
                   timers, cidVars, routerVars, fileVars>>

NextSubscribe == SubscriptionStep(Me)

SpecSubscribe == Init /\ [][NextSubscribe]_vars
(***************************************************************************)
(* The Processors of two nodes merging the Deltas of one namespace, each   *)
(* in the order the Deltas reach it.                                       *)
(***************************************************************************)
LatticeDeltas ==
    {"{\"k1\":{\"msg_counter\":5}}",
     "{\"k1\":{\"msg_counter\":3,\"tags_set\":[\"y\"]}}",
     "{\"k1\":{\"tags_set\":[\"x\"]}}",
     "{\"k2\":{\"status_register\":[1,\"x\"]}}",
     "{\"k2\":{\"status_register\":[1,\"y\"]}}",
     "{\"k2\":{\"status_register\":[2,\"x\"]}}"}

\* what applied keeps of a Delta merged by a node
Merged(a, d) ==
    [a EXCEPT !.deltas = @ \cup {d}, !.last = IF d \in a.deltas THEN @ ELSE d]

\* the Processor of node n handles Lattice(chat, d), for the first time or again
LatticeStep(n) ==
    /\ \E d \in LatticeDeltas :
          /\ pool' = [pool EXCEPT ![n] = Pool_handle(@, Act("Lattice", NoCid, "", <<"chat">>, d))]
          /\ applied' = [applied EXCEPT ![n] = Merged(@, d)]
    /\ UNCHANGED <<codecVars, queueVars, watcherVars, procVars, chatVars, sessVars,
                   plast, pprev, timers, cidVars, routerVars, fileVars>>

NextLattice == \E n \in Nodes : LatticeStep(n)

SpecLattice == Init /\ [][NextLattice]_vars
(***************************************************************************)
(* The Processor of node Me merging Deltas of the namespace chat while one *)
(* connection attaches to it and its writer takes the diffs.               *)
(***************************************************************************)
\* the connection that attaches
Subscriber == 0

FanOutActions ==
    {Act("NewConnection", Subscriber, "", <<>>, ""),
     Act("Associate", Subscriber, "", <<>>, "u1"),
     Act("Attach", Subscriber, "", <<"chat">>, "")}
        \cup {Act("Lattice", NoCid, "", <<"chat">>, d) : d \in DeltaBodies}

FanOutStep(n) ==
    /\ \E a \in FanOutActions : Sendable(n, a) /\ Handles(n, a)
    /\ UNCHANGED <<codecVars, queueVars, watcherVars, procVars, chatVars, sessVars,
                   applied, pprev, timers, cidVars, routerVars, fileVars>>

NextFanOut == FanOutStep(Me) \/ WriterTakes(Me)

SpecFanOut == Init /\ [][NextFanOut]_vars
(***************************************************************************)
(* Two nodes that are not peered, a subscriber of the namespace chat on    *)
(* each, and the control plane of each posted the same two Deltas.         *)
(***************************************************************************)
Counter5 == "{\"k1\":{\"msg_counter\":5}}"
Counter3 == "{\"k1\":{\"msg_counter\":3}}"
ConvergeDeltas == {Counter5, Counter3}

LatticePath == <<Slash, "v1", Slash, "lattice", Slash, "chat">>

\* the subscriber of node n is an Active subscriber of chat and its writer
\* has taken all it was sent
SubscriberAttached(n) ==
    /\ Subscriber \in DOMAIN pool[n].connections
    /\ pool[n].connections[Subscriber].tag = "Active"
    /\ Subscriber \in pool[n].lattices[<<"chat">>].subscribers
    /\ pool[n].channels[Subscriber] = <<>>

\* a client connects to node n, is authorized and attached to chat
SubscriberJoins(n) ==
    /\ Subscriber \notin DOMAIN pool[n].channels
    /\ processor[n] = <<>>
    /\ processor' = [processor EXCEPT ![n] =
          <<Message(MyPool, Act("NewConnection", Subscriber, "", <<>>, "")),
            Message(MyPool, Act("Associate", Subscriber, "", <<>>, "u1")),
            Message(MyPool, Act("Attach", Subscriber, "", <<"chat">>, ""))>>]
    /\ plast' = NoPLast
    /\ UNCHANGED <<codecVars, rx, peers, links, chans, connecting, now, last, procVars,
                   chatVars, sessVars, pool, applied, pprev, timers, cidVars, routerVars,
                   fileVars>>

\* the control plane of node n serves POST /v1/lattice/chat with a Delta it
\* has not been posted before
LatticePost(n) ==
    /\ SubscriberAttached(n)
    /\ \E d \in ConvergeDeltas \ applied[n].posted :
          LET st == headers_received(Some(LatticePath), "POST", "Valid", None)
              r == data_received(st, d, n)
          IN  /\ st.tag = "Query" /\ r.state.tag = "Done"
              /\ processor' = [processor EXCEPT ![n] =
                    @ \o [i \in 1..Len(r.processor) |-> Message(MyPool, r.processor[i])]]
              /\ rx' = [rx EXCEPT ![n] =
                    @ \o [i \in 1..Len(r.remote) |-> RemotePool_send(MyPool, r.remote[i])]]
              /\ applied' = [applied EXCEPT ![n].posted = @ \cup {d}]
    /\ plast' = NoPLast
    /\ UNCHANGED <<codecVars, peers, links, chans, connecting, now, last, procVars,
                   chatVars, sessVars, pool, pprev, timers, cidVars, routerVars, fileVars>>

\* what handling the Action a has put on the channel of the subscriber of n
NewlySent(n, a) ==
    LET before == IF Subscriber \in DOMAIN pool[n].channels
                  THEN pool[n].channels[Subscriber] ELSE <<>>
        after == Pool_handle(pool[n], a).channels
    IN  IF Subscriber \in DOMAIN after
        THEN SubSeq(after[Subscriber], Len(before) + 1, Len(after[Subscriber]))
        ELSE <<>>

\* the Processor of node n takes the next Action off its queue and handles it
ConvergeStep(n) ==
    /\ processor[n] # <<>>
    /\ LET a == Head(processor[n]).action
       IN  /\ Handles(n, a)
           /\ applied' = [applied EXCEPT ![n] =
                 IF a.type = "Lattice"
                 THEN [Merged(@, a.data) EXCEPT !.sent = @ \o NewlySent(n, a)]
                 ELSE @]
    /\ processor' = [processor EXCEPT ![n] = Tail(@)]
    /\ UNCHANGED <<codecVars, rx, peers, links, chans, connecting, now, last, procVars,
                   chatVars, sessVars, pprev, timers, cidVars, routerVars, fileVars>>

NextConverge ==
    \/ \E n \in Nodes : SubscriberJoins(n)
    \/ \E n \in Nodes : LatticePost(n)
    \/ \E n \in Nodes : ConvergeStep(n)
    \/ \E n \in Nodes : WriterTakes(n)
    \/ \E n \in Nodes : WatcherStep(n)

SpecConverge == Init /\ [][NextConverge]_vars
(***************************************************************************)
(* The Processor of node Me with the clock: connections are made, are      *)
(* authorized or not, and their authorization timeouts pass.               *)
(***************************************************************************)
AuthActions ==
    {Act(t, c, "", <<>>, "") : t \in {"NewConnection", "Disconnect"}, c \in PoolCids}
        \cup {Act("Associate", c, "", <<>>, u) : c \in PoolCids, u \in SessionIds}

\* the Processor of node n handles an Action; with NewConnection it starts
\* the authorization timeout of the connection
AuthStep(n) ==
    /\ \E a \in AuthActions :
          /\ Sendable(n, a)
          /\ Handles(n, a)
          /\ timers' = IF a.type = "NewConnection"
                       THEN [timers EXCEPT ![n] = Insert(@, a.conn_id, now + AuthTimeout)]
                       ELSE timers
    /\ UNCHANGED <<codecVars, queueVars, watcherVars, procVars, chatVars, sessVars,
                   applied, pprev, cidVars, routerVars, fileVars>>

\* the authorization timeout of a connection of node n passes
Expire(n) ==
    /\ \E c \in DOMAIN timers[n] :
          /\ timers[n][c] <= now
          /\ pool' = [pool EXCEPT ![n] = auth_timeout(@, c)]
          /\ plast' = [node |-> n, action |-> Act("AuthTimeout", c, "", <<>>, ""),
                       before |-> pool[n]]
          /\ timers' = [timers EXCEPT ![n] = Remove(@, c)]
    /\ UNCHANGED <<codecVars, queueVars, watcherVars, procVars, chatVars, sessVars,
                   applied, pprev, cidVars, routerVars, fileVars>>

\* the clock advances when no timeout is due
AuthTick ==
    /\ \A c \in DOMAIN timers[Me] : timers[Me][c] > now
    /\ Tick

NextAuth == AuthStep(Me) \/ Expire(Me) \/ AuthTick \/ WriterTakes(Me)

SpecAuth == Init /\ [][NextAuth]_vars
(***************************************************************************)
(* The threads of one process calling Cid::new.                            *)
(***************************************************************************)
\* thread t enters Cid::new and performs the fetch_add
CidFetch(t) ==
    /\ callers[t].pc = "idle"
    /\ Len(callers[t].cids) < MaxCalls
    /\ next_cid' = fetch_add(next_cid).new
    /\ callers' = [callers EXCEPT ![t] =
          [@ EXCEPT !.pc = "fetched", !.fetched = fetch_add(next_cid).old]]
    /\ UNCHANGED <<codecVars, queueVars, watcherVars, procVars, sessVars, poolVars,
                   handshake, reply, authorizing, channel, sock, routerVars, fileVars>>

\* Cid::new returns Cid(value as u64) to thread t
CidReturn(t) ==
    /\ callers[t].pc = "fetched"
    /\ callers' = [callers EXCEPT ![t] =
          [@ EXCEPT !.pc = "idle", !.cids = Append(@, callers[t].fetched)]]
    /\ UNCHANGED <<codecVars, queueVars, watcherVars, procVars, chatVars, sessVars, poolVars, routerVars,
                   fileVars>>

NextCid == \E t \in Threads : CidFetch(t) \/ CidReturn(t)

SpecCid == Init /\ [][NextCid]_vars
(***************************************************************************)
(* Nodes A and B with a connection on each: the control plane of A is sent *)
(* PUT /v1/connection/{cid}/lattices/chat for the one and for the other.   *)
(***************************************************************************)
LatticeSubscribePath(pubcid) ==
    <<Slash, "v1", Slash, "connection", Slash, pubcid, Slash, "lattices", Slash, "chat">>

AttachRequests ==
    {[method |-> "PUT", path |-> Some(LatticeSubscribePath(x)), content_type |-> "Valid",
      body |-> d] : x \in {"A-0", "B-0"}, d \in ConvergeDeltas}

\* a client connects to node n and is authorized
Connects(n) ==
    /\ Subscriber \notin DOMAIN pool[n].channels
    /\ processor[n] = <<>>
    /\ processor' = [processor EXCEPT ![n] =
          <<Message(MyPool, Act("NewConnection", Subscriber, "", <<>>, "")),
            Message(MyPool, Act("Associate", Subscriber, "", <<>>, "u1"))>>]
    /\ last' = NoLast
    /\ UNCHANGED <<codecVars, rx, peers, links, chans, connecting, now, procVars,
                   chatVars, sessVars, poolVars, cidVars, routerVars, fileVars>>

\* the connection of node n is Active and its writer has taken the Hello
Authorized(n) ==
    /\ Subscriber \in DOMAIN pool[n].connections
    /\ pool[n].connections[Subscriber].tag = "Active"
    /\ pool[n].channels[Subscriber] = <<>>

\* node n dials node m once the connections of both are authorized
Peers(n, m) ==
    /\ Authorized(n) /\ Authorized(m)
    /\ Connect(n, m)

\* the control plane of node n, which has its links, serves one of the
\* requests, each path once; applied keeps the Delta for the node that owns
\* the connection
LatticeSubscribePut(n) ==
    /\ \A m \in Nodes : Peered(m) /\ rx[m] = <<>>
    /\ \E q \in AttachRequests :
          LET st == headers_received(q.path, q.method, q.content_type, None)
              r == data_received(st, q.body, n)
          IN  /\ \A x \in hist.subs : ~(x.at = n /\ x.path = q.path)
              /\ st.tag = "Query" /\ r.state.tag = "Done"
              /\ processor' = [processor EXCEPT ![n] =
                    @ \o [i \in 1..Len(r.processor) |-> Message(MyPool, r.processor[i])]]
              /\ rx' = [rx EXCEPT ![n] =
                    @ \o [i \in 1..Len(r.remote) |-> RemotePool_send(MyPool, r.remote[i])]]
              /\ hist' = Accepted(n, q, st.route)
              /\ applied' = [applied EXCEPT ![st.route.srv].posted = @ \cup {q.body}]
    /\ last' = NoLast
    /\ UNCHANGED <<codecVars, peers, links, chans, connecting, now, topics, conns,
                   chatVars, sessVars, pool, plast, pprev, timers, cidVars, routerVars,
                   fileVars>>

\* the Processor of node n takes the next Action off its queue and handles it
AttachStep(n) ==
    /\ processor[n] # <<>>
    /\ Handles(n, Head(processor[n]).action)
    /\ pprev' = plast
    /\ processor' = [processor EXCEPT ![n] = Tail(@)]
    /\ last' = NoLast
    /\ UNCHANGED <<codecVars, rx, peers, links, chans, connecting, now, procVars,
                   chatVars, sessVars, applied, timers, cidVars, routerVars, fileVars>>

NextAttach ==
    \/ \E n \in Nodes : Connects(n)
    \/ LatticeSubscribePut(Me)
    \/ Peers(Me, "B")
    \/ \E n \in Nodes : WatcherStep(n)
    \/ \E c \in 1..Len(chans) : Deliver(c)
    \/ \E n \in Nodes : AttachStep(n)
    \/ \E n \in Nodes : WriterTakes(n)

SpecAttach == Init /\ [][NextAttach]_vars
(***************************************************************************)
(* The Processor of node Me and one connection that is subscribed and      *)
(* attached before it is authorized, with messages published meanwhile.    *)
(***************************************************************************)
\* the Publishes the buffer of the connection is let hold
MaxPending == 2

PendingActions ==
    {Act("NewConnection", Subscriber, "", <<>>, ""),
     Act("Subscribe", Subscriber, "", <<"a">>, ""),
     Act("Attach", Subscriber, "", <<"chat">>, ""),
     Act("Associate", Subscriber, "", <<>>, "u1"),
     Act("Publish", NoCid, "", <<"a">>, "m1"),
     Act("Publish", NoCid, "", <<"a">>, "m2"),
     Act("Lattice", NoCid, "", <<"chat">>, Counter5)}

PendingStep(n) ==
    /\ \E a \in PendingActions :
          /\ (a.type = "NewConnection") => a.conn_id \notin DOMAIN pool[n].channels
          /\ (a.type = "Publish") =>
                \A c \in DOMAIN pool[n].connections :
                    Len(pool[n].connections[c].message_buffer) < MaxPending
          /\ Handles(n, a)
    /\ UNCHANGED <<codecVars, queueVars, watcherVars, procVars, chatVars, sessVars,
                   applied, pprev, timers, cidVars, routerVars, fileVars>>

NextPending == PendingStep(Me) \/ WriterTakes(Me)

SpecPending == Init /\ [][NextPending]_vars
(***************************************************************************)
(* The Router serving the head of one request.                             *)
(***************************************************************************)
\* Router::headers_received is called with the head of a request
RouterArrive ==
    /\ routing.pc = "idle"
    /\ \E h \in RouterHosts, p \in RouterPaths :
          routing' = [NoRouting EXCEPT !.pc = "route", !.host = h, !.path = PathOrRoot(p)]
    /\ UNCHANGED <<codecVars, queueVars, watcherVars, procVars, chatVars, sessVars,
                   poolVars, cidVars, fileVars>>

\* start_request looks the route up: without one it returns Page(NotFound)
RouterMatch ==
    /\ routing.pc = "route"
    /\ \E found \in {None} \cup {Some(r) : r \in RouteNames} :
          LET m == matched_route(routing.host, found)
          IN  routing' = IF m = None
                         THEN [routing EXCEPT !.pc = "returned", !.result = "Page",
                                              !.status = NotFound]
                         ELSE [routing EXCEPT !.pc = "check", !.route = m]
    /\ UNCHANGED <<codecVars, queueVars, watcherVars, procVars, chatVars, sessVars,
                   poolVars, cidVars, fileVars>>

\* start_request asks the authorizer of the route
RouterCheck ==
    /\ routing.pc = "check"
    /\ \E check \in {"allow", "deny", "error"} :
          LET a == authorize(check)
          IN  routing' = IF a.tag = "Serve"
                         THEN [routing EXCEPT !.pc = "serve", !.check = check]
                         ELSE [routing EXCEPT !.pc = "returned", !.check = check,
                                              !.result = a.tag, !.status = a.status]
    /\ UNCHANGED <<codecVars, queueVars, watcherVars, procVars, chatVars, sessVars,
                   poolVars, cidVars, fileVars>>

\* route.handler.serve(inp).map_err(Fallback)
RouterServe ==
    /\ routing.pc = "serve"
    /\ \E served \in {"Request", "Fallback"} :
          routing' = [routing EXCEPT !.pc = "returned", !.handler_called = TRUE,
                                     !.result = served]
    /\ UNCHANGED <<codecVars, queueVars, watcherVars, procVars, chatVars, sessVars,
                   poolVars, cidVars, fileVars>>

\* Router::headers_received takes what start_request returned: the codec of
\* the handler, the error page of the status, or the error
RouterReturn ==
    /\ routing.pc = "returned"
    /\ routing' = [routing EXCEPT
          !.pc = CASE routing.result = "Request" -> "handler"
                   [] routing.result = "Page" -> "error_page"
                   [] OTHER -> "failed"]
    /\ UNCHANGED <<codecVars, queueVars, watcherVars, procVars, chatVars, sessVars,
                   poolVars, cidVars, fileVars>>

NextRouter == RouterArrive \/ RouterMatch \/ RouterCheck \/ RouterServe \/ RouterReturn

SpecRouter == Init /\ [][NextRouter]_vars

(***************************************************************************)
(* files.rs: serve_dir answering one request for a file.                   *)
(***************************************************************************)
FileModes == {"relative_to_domain_root", "with_hostname", "relative_to_route"}

\* settings.strip_host_suffix
HostSuffixes == {None, Some(<<"a">>)}

\* the Host headers of the requests
FileHosts ==
    {None, Some(<<"b">>), Some(<<"b", ":", "8", "0">>), Some(<<"b", "/", "a">>),
     Some(<<"b", ".", "a">>), Some(<<"b", "a">>), Some(<<".", ".">>),
     Some(<<".", ".", ".", "a">>)}

\* the components of the request paths: names, dots, and percent-encoded
\* dots, slashes, NUL and bytes that are no UTF-8
FileComponents ==
    {<<>>, <<"a">>, <<".">>, <<".", ".">>, <<"%", "2", "e">>,
     <<"%", "2", "E", ".">>, <<".", "%", "2", "e">>,
     <<"%", "2", "e", "%", "2", "E">>, <<"%", "2", "f">>,
     <<"a", "%", "2", "f", ".", ".">>, <<"%", "0", "0">>, <<"NUL">>,
     <<"%", "2">>, <<"%", "2", "g">>, <<"%", "e", "0">>,
     <<".", ".", "a">>, <<"?", ".", ".">>, <<"#", "a">>}

FilePaths ==
    {<<Slash>> \o Join(cmps) :
        cmps \in UNION {[1..n -> FileComponents] : n \in 0..MaxComponents}}

\* a request reaches the handler of a route
FilesRequest ==
    /\ files.pc = "idle"
    /\ \E mode \in FileModes, suf \in HostSuffixes, host \in FileHosts,
          p \in FilePaths, star \in BOOLEAN :
          files' = [files EXCEPT
                      !.pc = "path",
                      !.settings = [mode |-> mode, strip_host_suffix |-> suf],
                      !.inp = [host |-> host,
                               path |-> IF star THEN None ELSE Some(p),
                               suffix |-> IF star THEN <<>> ELSE p]]
    /\ UNCHANGED <<codecVars, queueVars, watcherVars, procVars, chatVars, sessVars,
                   poolVars, cidVars, routerVars>>

\* serve_dir: the match on path(settings, &inp)
FilesPath ==
    /\ files.pc = "path"
    /\ LET found == path(files.settings, files.inp)
       IN  files' = [files EXCEPT
                       !.result = found,
                       !.pc = CASE found.tag = "Ok" -> "open"
                                [] found.tag = "Err" -> "done"
                                [] OTHER -> "panicked",
                       !.status = IF found.tag = "Err" THEN Forbidden ELSE 0]
    /\ UNCHANGED <<codecVars, queueVars, watcherVars, procVars, chatVars, sessVars,
                   poolVars, cidVars, routerVars>>

\* serve_dir: the answer for what pool.open finds at the path
FilesOpen ==
    /\ files.pc = "open"
    /\ \E res \in {"Ok", "NotFound", "Other", "Err"} :
          files' = [files EXCEPT
                      !.pc = "done",
                      !.status = CASE res = "Ok" -> StatusOk
                                   [] res = "NotFound" -> NotFound
                                   [] res = "Other" -> Forbidden
                                   [] OTHER -> InternalServerError]
    /\ UNCHANGED <<codecVars, queueVars, watcherVars, procVars, chatVars, sessVars,
                   poolVars, cidVars, routerVars>>

NextFiles == FilesRequest \/ FilesPath \/ FilesOpen

SpecFiles == Init /\ [][NextFiles]_vars
(***************************************************************************)
(* The WebSocket handler serving one upgrade request, and the task that    *)
(* hijack spawns for the connection.                                       *)
(***************************************************************************)
MaxSent == 3

\* the upgrade requests and the settings of the handler
Handshakes ==
    [upgrade : {"Some", "None", "Err"},
     protocols : {<<>>, <<LatticeProto>>, <<"other">>, <<"other", LatticeProto>>},
     allow_empty_subprotocol : BOOLEAN,
     http_route : {"none", "missing", "handler"}]

\* the messages the authorizer and the Processor put on a connection channel
ConnectionMessages ==
    {Hello("u1", "{}"),
     FatalError("HttpError", 403, "{}"), FatalError("HttpError", 200, "{}"),
     FatalError("PoolOverflow", 0, ""),
     OtherMessage("Publish"), OtherMessage("Lattice"), OtherMessage("StopSock")}

\* serve: on an accepted upgrade the channel is made, a Cid is taken and
\* start_authorize is given a sender
Serve ==
    /\ reply = NoReply
    /\ \E h \in Handshakes :
          /\ handshake' = h
          /\ reply' = serve(h, next_cid)
          /\ IF serve(h, next_cid).tag = "WebsockReply"
             THEN /\ next_cid' = next_cid + 1
                  /\ authorizing' = authorizing \cup {next_cid}
                  /\ channel' = [queue |-> <<>>, senders |-> {"connector", "backend"},
                                 sent |-> <<>>]
                  /\ sock' = Sock("reply", <<>>, None)
             ELSE UNCHANGED <<next_cid, authorizing, channel, sock, cidVars, routerVars, fileVars>>
    /\ UNCHANGED <<codecVars, queueVars, watcherVars, procVars, sessVars, poolVars, poolVars, cidVars,
                   routerVars, fileVars>>

\* <WebsockReply as Codec>::start_response
ChatStartResponse ==
    /\ sock.phase = "reply"
    /\ reply' = [reply EXCEPT !.status = SwitchingProtocol]
    /\ sock' = [sock EXCEPT !.phase = "upgraded"]
    /\ UNCHANGED <<codecVars, queueVars, watcherVars, procVars, sessVars, poolVars,
                   handshake, next_cid, authorizing, channel, cidVars, routerVars, fileVars>>

\* <WebsockReply as Codec>::hijack: the task is spawned and waits
Hijack ==
    /\ sock.phase = "upgraded"
    /\ sock' = [sock EXCEPT !.phase = "waiting"]
    /\ UNCHANGED <<codecVars, queueVars, watcherVars, procVars, sessVars, poolVars,
                   handshake, reply, next_cid, authorizing, channel, cidVars, routerVars,
                   fileVars>>

\* the authorizer or the Processor sends a message on the channel
ChannelSend ==
    /\ "backend" \in channel.senders
    /\ Len(channel.sent) < MaxSent
    /\ \E msg \in ConnectionMessages :
          channel' = [channel EXCEPT !.queue = Append(@, msg), !.sent = Append(@, msg)]
    /\ UNCHANGED <<codecVars, queueVars, watcherVars, procVars, sessVars, poolVars,
                   handshake, reply, next_cid, authorizing, sock, cidVars, routerVars, fileVars>>

\* the session pool of the connection is removed: the authorizer and the
\* Processor drop their senders
PoolRemoved ==
    /\ "backend" \in channel.senders
    /\ channel' = [channel EXCEPT !.senders = @ \ {"backend"}]
    /\ UNCHANGED <<codecVars, queueVars, watcherVars, procVars, sessVars, poolVars,
                   handshake, reply, next_cid, authorizing, sock, cidVars, routerVars, fileVars>>

\* rx.into_future() completes and the closure runs; its sender goes to the
\* Dispatcher of the normal loop or is dropped with the closure
FirstMessage ==
    /\ sock.phase = "waiting"
    /\ into_future(channel).tag # "NotReady"
    /\ sock' = hijack_then(into_future(channel))
    /\ channel' = [channel EXCEPT
                      !.queue = IF @ = <<>> THEN @ ELSE Tail(@),
                      !.senders = IF hijack_then(into_future(channel)).phase = "loop"
                                  THEN @ ELSE @ \ {"connector"}]
    /\ UNCHANGED <<codecVars, queueVars, watcherVars, procVars, sessVars, poolVars,
                   handshake, reply, next_cid, authorizing, cidVars, routerVars, fileVars>>

\* websocket::Loop::server writes the next message of the channel
Forward ==
    /\ sock.phase = "loop"
    /\ channel.queue # <<>>
    /\ sock' = [sock EXCEPT !.frames = Append(@, Frame(Head(channel.queue)))]
    /\ channel' = [channel EXCEPT !.queue = Tail(@)]
    /\ UNCHANGED <<codecVars, queueVars, watcherVars, procVars, sessVars, poolVars,
                   handshake, reply, next_cid, authorizing, cidVars, routerVars, fileVars>>

NextChat ==
    \/ Serve \/ ChatStartResponse \/ Hijack
    \/ ChannelSend \/ PoolRemoved
    \/ FirstMessage \/ Forward

SpecChat == Init /\ [][NextChat]_vars

\* the reactor polls the spawned task whenever it can go on
SpecChatFair == SpecChat /\ WF_vars(FirstMessage) /\ WF_vars(Forward)

(***************************************************************************)
(* Properties of the control-plane codec (SpecCodec).                      *)
(***************************************************************************)
\* the segments of the request path, the text before the leading "/" first
ReqSegs == IF req.path = None THEN <<>> ELSE SplitN(req.path[1], Len(req.path[1]) + 1, Slash)

IsWord(seg) == Len(seg) = 1 /\ seg[1] \notin {Dot, Slash}

\* the segments of g from the k-th on spell a namespace that begins with "swindon."
ReservedNs(g, k) ==
    /\ Len(g) > k
    /\ g[k] = <<"swindon">>
    /\ \A i \in k..Len(g) : IsWord(g[i])

\* the request is under /v1/connection/{cid}/, and its {cid} if it parses
ReqPubCid ==
    LET g == ReqSegs
    IN  IF Len(g) >= 5 /\ g[1] = <<>> /\ g[2] = <<"v1">> /\ g[3] = <<"connection">>
        THEN ParsePubCid(g[4])
        ELSE None

\* PUT or DELETE /v1/connection/{cid}/lattices/{ns_path}, or POST
\* /v1/lattice/{ns_path}, with a namespace that begins with "swindon."
ReqNamesReservedNs ==
    LET g == ReqSegs
    IN  \/ /\ ReqPubCid # None
           /\ g[5] = <<"lattices">>
           /\ req.method \in {"PUT", "DELETE"}
           /\ ReservedNs(g, 6)
        \/ /\ Len(g) >= 3 /\ g[1] = <<>> /\ g[2] = <<"v1">> /\ g[3] = <<"lattice">>
           /\ req.method = "POST"
           /\ ReservedNs(g, 4)

NothingEmitted == processor[Me] = <<>> /\ rx[Me] = <<>>

\* C1: a request that names a lattice namespace beginning with "swindon."
\* (PUT or DELETE /v1/connection/{cid}/lattices/{ns_path}, POST
\* /v1/lattice/{ns_path}) is answered 403 and emits neither a local Action
\* nor a RemoteAction.
C1_ReservedNamespaceRejected ==
    /\ (phase \in {"response", "end"} /\ ReqNamesReservedNs) => NothingEmitted
    /\ (phase = "end" /\ ReqNamesReservedNs) => status = Forbidden

\* the part of C1 that concerns the routes under /v1/connection/{cid}/lattices/
ReservedOnConnectionRoutes ==
    (phase = "end" /\ ReqNamesReservedNs /\ ReqPubCid # None)
        => (status = Forbidden /\ NothingEmitted)

\* the body has been received of a request whose PubCid is another node's
ForeignCidRequest ==
    /\ phase \in {"response", "end"}
    /\ ReqPubCid # None
    /\ ReqPubCid[1].srv # Me

\* the RemoteActions on the replication queue of node Me, in order
Emitted == [i \in 1..Len(rx[Me]) |-> rx[Me][i].msg.action]

\* C2 as stated: a connection-scoped request whose PubCid carries a ServerId
\* that is not this node's sends no local Action of any kind to the Processor;
\* only the RemoteAction(s) are emitted.
C2_NoLocalActionOfAnyKind ==
    ForeignCidRequest =>
        /\ processor[Me] = <<>>
        /\ state.tag = "Done" => rx[Me] # <<>>

\* C2 as amended: such a request sends no connection-scoped local Action; the
\* only local Action it can send is the Lattice merge of PUT lattices, which
\* names no connection; its RemoteAction(s), which carry the foreign PubCid,
\* are emitted whenever it is accepted.
C2_NoLocalConnectionAction ==
    ForeignCidRequest =>
        /\ \A i \in 1..Len(processor[Me]) :
              /\ processor[Me][i].action.type = "Lattice"
              /\ processor[Me][i].action.conn_id = NoCid
              /\ req.method = "PUT" /\ ReqSegs[5] = <<"lattices">>
        /\ state.tag = "Done" =>
              /\ rx[Me] # <<>>
              /\ \A i \in 1..Len(rx[Me]) : rx[Me][i].kind = "Outgoing"
              /\ \E i \in 1..Len(rx[Me]) :
                    /\ Emitted[i].conn_id = ReqPubCid[1].cid
                    /\ Emitted[i].server_id = ReqPubCid[1].srv
              /\ \A i \in 1..Len(rx[Me]) :
                    Emitted[i].type \in ConnActionTypes =>
                        Emitted[i].server_id = ReqPubCid[1].srv

\* a PUT lattices for a foreign cid was answered 204: the merge went to the
\* local Processor, the Attach did not
C2_Witness ==
    /\ ForeignCidRequest
    /\ phase = "end"
    /\ status = NoContent
    /\ processor[Me] # <<>>
    /\ Len(rx[Me]) = 2

\* the state headers_received left the request in
ReqRoute == headers_received(req.path, req.method, req.content_type, weak_content_type)

\* the RemoteActions the route table gives each Route
ExpectedRemote(tag) ==
    CASE tag = "Subscribe" -> {"Subscribe"}
      [] tag = "Unsubscribe" -> {"Unsubscribe"}
      [] tag = "Publish" -> {"Publish"}
      [] tag = "LatticeSubscribe" -> {"Lattice", "Attach"}
      [] tag = "Detach" -> {"Detach"}
      [] tag = "UsersSubscribe" -> {"AttachUsers"}
      [] tag = "UsersDetach" -> {"DetachUsers"}
      [] tag = "UsersUpdate" -> {"UpdateUsers"}
      [] tag = "Lattice" -> {"Lattice"}

\* C10: a request answered 400, 403 or 404 has emitted no local Action and no
\* RemoteAction; a request answered 204 has emitted the RemoteAction(s) of its
\* route; once the body is received the state is Done or Error; the codec
\* answers only 204, 400, 403 or 404.
C10_StatusAndEmission ==
    /\ phase \in {"response", "end"} => state.tag \in {"Done", "Error"}
    /\ phase = "end" => status \in {NoContent, BadRequest, Forbidden, NotFound}
    /\ (phase = "end" /\ status \in {BadRequest, Forbidden, NotFound}) => NothingEmitted
    /\ (phase = "end" /\ status = NoContent) =>
          /\ ReqRoute.tag = "Query"
          /\ \A i \in 1..Len(rx[Me]) : rx[Me][i].kind = "Outgoing" /\ rx[Me][i].msg.pool = MyPool
          /\ {Emitted[i].type : i \in 1..Len(rx[Me])} = ExpectedRemote(ReqRoute.route.tag)
          /\ Len(rx[Me]) = Cardinality(ExpectedRemote(ReqRoute.route.tag))

\* a request that dispatch and the Content-Type check let through was
\* answered 400 for its body
C10_Witness ==
    /\ phase = "end"
    /\ status = BadRequest
    /\ ReqRoute.tag = "Query"
    /\ NothingEmitted
(***************************************************************************)
(* Properties of the Watcher (SpecWatcher).                                *)
(***************************************************************************)
\* the last step was the Watcher handling an item of this kind
Handled(kind) == last.node # "" /\ last.item.kind = kind

\* the RemoteAction of the item the Watcher handled last
LastAction == last.item.msg.action

\* what local_send's call of processor.send carries for the last item
Forwarded == <<Message(last.item.msg.pool, Act(LastAction.type, LastAction.conn_id, "",
                                               LastAction.name, LastAction.data))>>

\* C3: on Incoming(msg), a connection-scoped RemoteAction of any variant whose
\* server_id is not the receiving node's is never forwarded to the Processor.
C3_ForeignConnectionActionDropped ==
    (/\ Handled("Incoming")
     /\ LastAction.type \in ConnActionTypes
     /\ LastAction.server_id # last.node)
        => (last.local = <<>> /\ processor[last.node] = <<>>)

\* C4 as stated: on Incoming(msg), a connection-scoped action is dropped when
\* the carried server_id is the node's own and routed to the Processor when it
\* is another node's.
C4_DropsOwnRoutesForeign ==
    (Handled("Incoming") /\ LastAction.type \in ConnActionTypes) =>
        /\ LastAction.server_id = last.node => last.local = <<>>
        /\ LastAction.server_id # last.node => last.local = Forwarded

\* C4 as amended: on Incoming(msg), a connection-scoped action is routed to
\* the Processor when the carried server_id is the node's own, and a Subscribe,
\* Unsubscribe, Attach or Detach is dropped when it is another node's.
C4_RoutesOwnDropsForeign ==
    (Handled("Incoming") /\ LastAction.type \in ConnActionTypes) =>
        /\ LastAction.server_id = last.node =>
              (last.local = Forwarded /\ processor[last.node] = Forwarded)
        /\ (/\ LastAction.server_id # last.node
            /\ LastAction.type \in {"Subscribe", "Unsubscribe", "Attach", "Detach"}) =>
              (last.local = <<>> /\ processor[last.node] = <<>>)

\* an Incoming Subscribe that carries the node's own server_id reached the Processor
C4_Witness ==
    /\ Handled("Incoming")
    /\ LastAction.type = "Subscribe"
    /\ LastAction.server_id = last.node
    /\ processor[last.node] # <<>>

\* C5: on Incoming(msg) with a Publish, Lattice or UpdateUsers, the action is
\* always forwarded to the Processor of the pool named in the envelope.
C5_PoolActionsForwarded ==
    (Handled("Incoming") /\ LastAction.type \in PoolActionTypes) =>
        /\ Len(processor[last.node]) = 1
        /\ processor[last.node][1].pool = last.item.msg.pool
        /\ processor[last.node][1].action.type = LastAction.type
        /\ processor[last.node][1].action.name = LastAction.name
        /\ processor[last.node][1].action.data = LastAction.data

\* an Incoming Lattice for pool p2 is on the Processor's queue while the node has a link
C5_Witness ==
    /\ Handled("Incoming")
    /\ LastAction.type = "Lattice"
    /\ last.item.msg.pool = "p2"
    /\ processor[last.node] # <<>>
    /\ DOMAIN links[last.node] # {}

\* the frames on the channels of chs, and none for a channel chs does not have
Bufs(chs) == [c \in 1..MaxChans |-> IF c <= Len(chs) THEN chs[c].buf ELSE <<>>]

\* C6: handling Incoming(msg) sends nothing on any channel of links and leaves
\* links alone; only Outgoing(msg) puts frames on channels; handling an
\* Outgoing message sends nothing to the local Processor.
C6_NoRebroadcast ==
    [][/\ (last'.node # "" /\ last'.item.kind = "Incoming") =>
              (Bufs(chans') = Bufs(chans) /\ links' = links /\ peers' = peers)
       /\ (\E c \in 1..MaxChans : Len(Bufs(chans')[c]) > Len(Bufs(chans)[c])) =>
              (last'.node # "" /\ last'.item.kind = "Outgoing")
       /\ (last'.node # "" /\ last'.item.kind = "Outgoing") => processor' = processor
      ]_vars

\* an Incoming message went to the Processor of a node that has a live link,
\* and no channel holds a frame
C6_Witness ==
    /\ Handled("Incoming")
    /\ processor[last.node] # <<>>
    /\ \E r \in DOMAIN links[last.node] : chans[links[last.node][r]].alive
    /\ \A c \in 1..Len(chans) : chans[c].buf = <<>>

\* the links of node n whose channel has lost its receiver
Failing(n) == {r \in DOMAIN links[n] : ~chans[links[n][r]].alive}

\* C7: on Outgoing(msg) the frame is put exactly once on the channel of every
\* link whose send succeeds; exactly the links whose send fails are removed;
\* peers and the Processor are untouched; with no links nothing is sent.
C7_OutgoingFanOut ==
    [][(last'.node # "" /\ last'.item.kind = "Outgoing") =>
          LET n == last'.node
              kept == DOMAIN links[n] \ Failing(n)
          IN  /\ DOMAIN links'[n] = kept
              /\ \A r \in kept : links'[n][r] = links[n][r]
              /\ Len(chans') = Len(chans)
              /\ \A c \in 1..Len(chans) :
                    /\ chans'[c].alive = chans[c].alive
                    /\ chans'[c].buf =
                          IF \E r \in kept : links[n][r] = c
                          THEN Append(chans[c].buf, Packet_Text(last'.item.msg))
                          ELSE chans[c].buf
              /\ peers' = peers
              /\ processor' = processor
      ]_vars

\* an Outgoing message was handled with one link failing and another taking the frame
C7_Witness ==
    /\ Handled("Outgoing")
    /\ last.to_delete # {}
    /\ last.sent # {}
    /\ \A c \in last.sent : chans[c].buf = <<Packet_Text(last.item.msg)>>
    /\ DOMAIN links[last.node] \cap last.to_delete = {}
(***************************************************************************)
(* Properties of the two nodes together (SpecCluster).                     *)
(***************************************************************************)
\* nothing is queued or in flight anywhere
ClusterQuiet ==
    /\ \A n \in Nodes : rx[n] = <<>> /\ processor[n] = <<>>
    /\ \A c \in 1..Len(chans) : chans[c].buf = <<>>

\* how often the publish of body was put on the channel of connection cid of node n
Enqueued(n, cid, body) ==
    Cardinality({i \in 1..Len(conns[n][cid]) :
                    conns[n][cid][i].type = "Publish" /\ conns[n][cid][i].data = body})

\* C8: a publish accepted by a node is put at most once on the channel of any
\* connection of any node, and once everything queued has been handled it is
\* there exactly once for every connection that was subscribed to its topic
\* when it was accepted: on the accepting node, and on the other node if the
\* accepting node had a link to it; so also when two channels to the same
\* ServerId were attached
C8_PublishExactlyOnce ==
    /\ \A n \in Nodes, cid \in LocalCids, b \in Bodies : Enqueued(n, cid, b) <= 1
    /\ ClusterQuiet =>
          \A p \in hist.pubs, n \in Nodes :
             (n = p.at \/ p.peered) =>
                \A cid \in p.subs[n] : Enqueued(n, cid, p.body) = 1

\* C8 happens: A had attached a channel it dialled and a channel it accepted,
\* both to B, when it accepted a publish to a topic with a subscriber on A and
\* one on B, and each has the publish once
C8_Witness ==
    /\ ClusterQuiet
    /\ \E p \in hist.pubs :
          /\ p.at = "A" /\ p.peered
          /\ \E c, d \in p.attached :
                /\ chans[c].dest = "B" /\ chans[c].outbound
                /\ chans[d].dest = "B" /\ ~chans[d].outbound
          /\ p.subs["A"] # {} /\ p.subs["B"] # {}
          /\ \A n \in Nodes : \A cid \in p.subs[n] : Enqueued(n, cid, p.body) = 1

\* the subscribe requests accepted so far that name a connection of node n
SubsFor(n) == {s \in hist.subs : s.srv = n}

\* C9: a subscribe that node A accepts for a connection of node B leaves the
\* topics of A alone (a connection is in the topics of a node only if a
\* subscribe naming that node was accepted), and once everything queued has
\* been handled the topics of B have the entry, if A had a link to B
C9_ForeignSubscribe ==
    /\ \A n \in Nodes : \A e \in topics[n] :
          \E s \in SubsFor(n) : s.name = e[1] /\ s.cid = e[2]
    /\ ClusterQuiet =>
          \A s \in hist.subs :
             (s.srv # s.at /\ s.srv \in Nodes /\ s.peered) => <<s.name, s.cid>> \in topics[s.srv]

\* C9 happens: A accepted a subscribe for a connection of B and none for its
\* own; its topics are empty and those of B have the entry
C9_Witness ==
    /\ ClusterQuiet
    /\ \E s \in hist.subs : s.at = "A" /\ s.srv = "B" /\ s.peered
                            /\ <<s.name, s.cid>> \in topics["B"]
    /\ SubsFor("A") = {}
    /\ topics["A"] = {}
(***************************************************************************)
(* Properties of the codec's reading of the path (SpecCodec).              *)
(***************************************************************************)
\* the request is under /v1/
UnderV1 == Len(ReqSegs) >= 3 /\ ReqSegs[1] = <<>> /\ ReqSegs[2] = <<"v1">>

\* the segments of g from the k-th on, a {topic_path} or {ns_path}
PathTail(g, k) == IF Len(g) >= k THEN SubSeq(g, k, Len(g)) ELSE <<>>

\* a {topic_path} or {ns_path} with a literal dot in it
HasDot(t) == \E i \in 1..Len(t) : Contains(t[i], Dot)

\* a {topic_path} or {ns_path} without a dot that is no Topic or Namespace:
\* one of its segments is empty
Unparsable(t) == Len(t) >= 1 /\ ~HasDot(t) /\ \E i \in 1..Len(t) : t[i] = <<>>

\* the request is for a connection-scoped row of the route table
ConnectionRow ==
    /\ UnderV1 /\ Len(ReqSegs) >= 5 /\ ReqSegs[3] = <<"connection">>
    /\ ReqSegs[5] \in {<<"subscriptions">>, <<"lattices">>, <<"users">>}
    /\ req.method \in {"PUT", "DELETE"}

\* the request is for the publish or the lattice row of the route table
HeadRow ==
    /\ UnderV1 /\ Len(ReqSegs) >= 4 /\ ReqSegs[3] \in {<<"publish">>, <<"lattice">>}
    /\ req.method = "POST"

\* the {topic_path} or {ns_path} of the request, for a row that takes one
ReqPathTail ==
    IF ConnectionRow /\ ReqSegs[5] \in {<<"subscriptions">>, <<"lattices">>}
    THEN Some(PathTail(ReqSegs, 6))
    ELSE IF HeadRow THEN Some(PathTail(ReqSegs, 4))
    ELSE None

\* the {cid} of the request does not parse
MalformedCid == ConnectionRow /\ ParsePubCid(ReqSegs[4]) = None

\* the {topic_path} or {ns_path} of the request does not parse
MalformedTopic == ReqPathTail # None /\ Unparsable(ReqPathTail[1])

\* C11: a request under /v1/ whose {cid} does not parse, or whose topic or
\* namespace path does not parse as a Topic or Namespace, is answered 400.
C11_MalformedPathBadRequest ==
    (phase = "end" /\ (MalformedCid \/ MalformedTopic)) => status = BadRequest

\* what dispatch does with such a request: it is no route (404), or it is
\* refused for its namespace (403); nothing is emitted
MalformedPathNotFound ==
    (phase = "end" /\ (MalformedCid \/ MalformedTopic)) =>
        (status \in {NotFound, Forbidden} /\ NothingEmitted)

\* the segments of a path joined with dots
RECURSIVE DotJoin(_)
DotJoin(t) ==
    IF Len(t) = 0 THEN <<>>
    ELSE IF Len(t) = 1 THEN t[1]
    ELSE t[1] \o <<Dot>> \o DotJoin(Tail(t))

\* the Actions on the Processor's queue of node Me, in order
EmittedLocal == [i \in 1..Len(processor[Me]) |-> processor[Me][i].action]

\* C12: on a route that takes a {topic_path} or {ns_path}, a path with a
\* literal dot in it is answered 404 and nothing is emitted; a request that is
\* accepted names, in every Action and RemoteAction it emits, the Topic or
\* Namespace made of the segments of its path joined with dots.
C12_DotRejectedSlashJoined ==
    /\ (phase \in {"response", "end"} /\ ReqPathTail # None /\ HasDot(ReqPathTail[1])) =>
          /\ NothingEmitted
          /\ phase = "end" => status = NotFound
    /\ (phase = "end" /\ ReqPathTail # None /\ status = NoContent) =>
          /\ \A i \in 1..Len(rx[Me]) : Emitted[i].name = DotJoin(ReqPathTail[1])
          /\ \A i \in 1..Len(processor[Me]) : EmittedLocal[i].name = DotJoin(ReqPathTail[1])

\* a subscribe whose {cid} parses and whose topic path has a dot in it was
\* answered 404
C12_Witness ==
    /\ phase = "end"
    /\ ConnectionRow /\ ~MalformedCid /\ ReqSegs[5] = <<"subscriptions">>
    /\ HasDot(ReqPathTail[1])
    /\ \A i \in 1..Len(ReqPathTail[1]) : ReqPathTail[1][i] # <<>>
    /\ status = NotFound

(***************************************************************************)
(* Properties of the codec's Content-Type check (SpecCodec).               *)
(***************************************************************************)
\* the routes the route table gives a body
BodiedRoutes == {"Publish", "LatticeSubscribe", "Lattice", "UsersSubscribe", "UsersUpdate"}

\* what dispatch makes of the request, NoRoute if it is no route
ReqDispatched ==
    IF req.path # None /\ StartsWith(req.path[1], <<Slash, "v1", Slash>>)
    THEN LET st == dispatch(SubSeq(req.path[1], 4, Len(req.path[1])), req.method)
         IN  IF st.tag = "Query" THEN st.route ELSE NoRoute
    ELSE NoRoute

\* weak_content_type is set and true
Weak == weak_content_type = Some(TRUE)

\* the state and the queues the same request leaves behind when its
\* Content-Type is valid JSON
AsIfValid ==
    LET r == data_received(
                headers_received(req.path, req.method, "Valid", weak_content_type), data, Me)
    IN  [state |-> r.state,
         processor |-> [i \in 1..Len(r.processor) |-> Message(MyPool, r.processor[i])],
         rx |-> [i \in 1..Len(r.remote) |-> RemotePool_send(MyPool, r.remote[i])]]

\* C13: a request for a route with a body whose Content-Type is missing or not
\* JSON is answered 400 and emits nothing when weak_content_type is unset or
\* false, and is handled as the same request with a valid Content-Type when
\* weak_content_type is true; a request for a route without a body is handled
\* the same whatever its Content-Type.
C13_ContentTypeCheck ==
    /\ (/\ phase \in {"response", "end"}
        /\ ReqDispatched.tag \in BodiedRoutes
        /\ req.content_type \in {"Absent", "Invalid"}
        /\ ~Weak) =>
          /\ NothingEmitted
          /\ state = Error(BadRequest)
          /\ phase = "end" => status = BadRequest
    /\ (/\ phase \in {"response", "end"}
        /\ ReqDispatched # NoRoute
        /\ (Weak \/ ReqDispatched.tag \notin BodiedRoutes)) =>
          /\ state = AsIfValid.state
          /\ processor[Me] = AsIfValid.processor
          /\ rx[Me] = AsIfValid.rx
    /\ (phase = "body" /\ ReqDispatched # NoRoute /\ ReqDispatched.tag \notin BodiedRoutes) =>
          state = Query(ReqDispatched)

\* a publish with a Content-Type that is not JSON was accepted under
\* weak_content_type = true
C13_Witness ==
    /\ phase = "end"
    /\ ReqDispatched.tag = "Publish"
    /\ req.content_type = "Invalid"
    /\ Weak
    /\ status = NoContent
    /\ rx[Me] # <<>>

(***************************************************************************)
(* Properties of dispatch against the route table (SpecCodec).             *)
(***************************************************************************)
\* a {topic_path} or {ns_path} that is a Topic or Namespace: one segment or
\* more, each a word
WellFormed(t) == Len(t) >= 1 /\ \A i \in 1..Len(t) : IsWord(t[i])

\* a {ns_path} the route table refuses with 403
Reserved(t) == WellFormed(t) /\ Len(t) >= 2 /\ t[1] = <<"swindon">>

\* the Route the route table gives the request, "" if it gives none
TableRoute ==
    LET g == ReqSegs
        m == req.method
    IN  IF ~UnderV1 THEN ""
        ELSE IF g[3] = <<"connection">> /\ Len(g) >= 6 /\ ParsePubCid(g[4]) # None
                /\ g[5] = <<"subscriptions">> /\ WellFormed(PathTail(g, 6))
        THEN (IF m = "PUT" THEN "Subscribe" ELSE IF m = "DELETE" THEN "Unsubscribe" ELSE "")
        ELSE IF g[3] = <<"connection">> /\ Len(g) >= 6 /\ ParsePubCid(g[4]) # None
                /\ g[5] = <<"lattices">> /\ WellFormed(PathTail(g, 6))
                /\ ~Reserved(PathTail(g, 6))
        THEN (IF m = "PUT" THEN "LatticeSubscribe" ELSE IF m = "DELETE" THEN "Detach" ELSE "")
        ELSE IF g[3] = <<"connection">> /\ Len(g) = 5 /\ ParsePubCid(g[4]) # None
                /\ g[5] = <<"users">>
        THEN (IF m = "PUT" THEN "UsersSubscribe" ELSE IF m = "DELETE" THEN "UsersDetach" ELSE "")
        ELSE IF g[3] = <<"user">> /\ Len(g) = 5 /\ IsWord(g[4]) /\ g[5] = <<"users">>
        THEN (IF m = "PUT" THEN "UsersUpdate" ELSE "")
        ELSE IF g[3] = <<"publish">> /\ WellFormed(PathTail(g, 4))
        THEN (IF m = "POST" THEN "Publish" ELSE "")
        ELSE IF g[3] = <<"lattice">> /\ WellFormed(PathTail(g, 4)) /\ ~Reserved(PathTail(g, 4))
        THEN (IF m = "POST" THEN "Lattice" ELSE "")
        ELSE ""

\* the state dispatch gives the request, before the Content-Type is looked at
ReqDispatchState ==
    IF StartsWith(req.path[1], <<Slash, "v1", Slash>>)
    THEN dispatch(SubSeq(req.path[1], 4, Len(req.path[1])), req.method)
    ELSE Error(NotFound)

\* the request names a namespace the route table refuses with 403
TableForbidden ==
    /\ UnderV1
    /\ \/ /\ ReqSegs[3] = <<"connection">> /\ Len(ReqSegs) >= 6
          /\ ReqSegs[5] = <<"lattices">> /\ Reserved(PathTail(ReqSegs, 6))
       \/ ReqSegs[3] = <<"lattice">> /\ Reserved(PathTail(ReqSegs, 4))

\* C14: dispatch gives each of the nine rows of the route table its Route, and
\* gives every other method or path 404: a path not under /v1/, a wrong
\* method for a known path, a known path with further segments after it.
C14_DispatchFollowsRouteTable ==
    (phase # "idle" /\ req.path # None) =>
        /\ TableRoute # "" =>
              ReqDispatchState.tag = "Query" /\ ReqDispatchState.route.tag = TableRoute
        /\ (TableRoute = "" /\ ~TableForbidden) => ReqDispatchState = Error(NotFound)

\* the rows of the route table do get their Routes
DispatchTableRows ==
    (phase # "idle" /\ req.path # None /\ TableRoute # "") =>
        ReqDispatchState.tag = "Query" /\ ReqDispatchState.route.tag = TableRoute

\* what dispatch gives 404: everything that is neither a row of the table nor
\* a reserved namespace, but for a users path with further segments after it
DispatchNotFound ==
    (phase # "idle" /\ req.path # None /\ TableRoute = "" /\ ~TableForbidden
     /\ ReqDispatchState # Error(NotFound)) =>
        /\ ReqDispatchState.tag = "Query"
        /\ ReqDispatchState.route.tag \in {"UsersSubscribe", "UsersDetach", "UsersUpdate"}
        /\ Len(ReqSegs) > 5

(***************************************************************************)
(* Properties of the WebSocket handler (SpecChat).                         *)
(***************************************************************************)
\* serve has answered a WebSocket upgrade
Upgrading == reply # NoReply /\ handshake.upgrade = "Some"

\* the client offers the subprotocol of the chat
Offered == \E i \in 1..Len(handshake.protocols) : handshake.protocols[i] = LatticeProto

\* the upgrade was refused with 400: no Cid was taken, no authorization started
Refused ==
    /\ reply = Reply("ErrorPage", BadRequest, None, NoCid)
    /\ next_cid = 0
    /\ authorizing = {}
    /\ sock = NoSock

\* C15: an upgrade is accepted with the subprotocol v1.swindon-lattice+json
\* whenever the client offers it, is accepted without a subprotocol only when
\* the client offers none and the configuration allows that, and is otherwise
\* answered 400 with no Cid taken and no authorization started.
C15_SubprotocolChoice ==
    Upgrading =>
        /\ Offered => (reply.tag = "WebsockReply" /\ reply.proto = Some(LatticeProto))
        /\ (reply.tag = "WebsockReply" /\ reply.proto = None) =>
              (handshake.protocols = <<>> /\ handshake.allow_empty_subprotocol)
        /\ (~Offered /\ ~(handshake.protocols = <<>> /\ handshake.allow_empty_subprotocol)) =>
              Refused

\* the part of C15 the handler keeps: the offered subprotocol is chosen, no
\* subprotocol is accepted when allowed, and it is refused when not allowed
SubprotocolOfferedOrEmpty ==
    Upgrading =>
        /\ Offered => (reply.tag = "WebsockReply" /\ reply.proto = Some(LatticeProto))
        /\ (handshake.protocols = <<>> /\ handshake.allow_empty_subprotocol) =>
              (reply.tag = "WebsockReply" /\ reply.proto = None)
        /\ (handshake.protocols = <<>> /\ ~handshake.allow_empty_subprotocol) => Refused
        /\ reply.tag = "WebsockReply" =>
              (reply.cid = 0 /\ next_cid = 1 /\ authorizing = {0})

\* the task has taken the first message off the channel
FirstTaken == sock.phase \in {"loop", "closing", "panic"} /\ channel.sent # <<>>

\* the first message is FatalError(HttpError(status, data)) with a 4xx or 5xx
\* status
FirstIsHttpError ==
    /\ channel.sent[1].type = "FatalError"
    /\ channel.sent[1].kind = "HttpError"
    /\ channel.sent[1].status \in 400..599

\* C16: nothing is written before the first message of the channel is taken;
\* if it is Hello, its frame is the first written and the frames written are
\* the messages of the channel in the order they were sent; if it is
\* FatalError(HttpError(status, data)) with a valid status, one fatal_error
\* frame is written, the socket is closed with 4000 + status and the reason
\* "backend_error", and the normal loop is not started.
C16_HelloFirstThenFifo ==
    /\ sock.phase \in {"-", "reply", "upgraded", "waiting"} =>
          (sock.frames = <<>> /\ sock.close = None)
    /\ (FirstTaken /\ channel.sent[1].type = "Hello") =>
          /\ sock.phase = "loop"
          /\ sock.close = None
          /\ Len(sock.frames) >= 1
          /\ Len(sock.frames) + Len(channel.queue) = Len(channel.sent)
          /\ \A i \in 1..Len(sock.frames) : sock.frames[i] = Frame(channel.sent[i])
    /\ (FirstTaken /\ FirstIsHttpError) =>
          sock = Sock("closing",
                      <<FatalFrame("HttpError", channel.sent[1].data)>>,
                      Close(4000 + channel.sent[1].status, "backend_error"))

\* after Hello a later message of the channel was written to the client
C16_Witness ==
    /\ sock.phase = "loop"
    /\ Len(sock.frames) >= 2
    /\ sock.frames[1].msg.type = "Hello"
    /\ sock.frames[2].msg.type = "Publish"

\* C17: a first message that is neither Hello nor FatalError(HttpError) with
\* a valid status is a protocol violation: the socket is closed with 4500 and
\* the task does not crash.
C17_OtherFirstMessageCloses4500 ==
    (FirstTaken /\ channel.sent[1].type # "Hello" /\ ~FirstIsHttpError) =>
        /\ sock.phase = "closing"
        /\ sock.close # None
        /\ sock.close[1].code = ProtocolViolation

\* what the task does with such a first message: a FatalError is closed with
\* 4500, on any other message the task panics
OtherFirstMessagePanics ==
    (FirstTaken /\ channel.sent[1].type # "Hello" /\ ~FirstIsHttpError) =>
        IF channel.sent[1].type = "FatalError"
        THEN sock = Sock("closing", <<FatalFrame(channel.sent[1].kind, "null")>>,
                         Close(ProtocolViolation, "backend_error"))
        ELSE sock = Sock("panic", <<>>, None)

\* the session pool was removed before any message was sent on the channel,
\* and the task waits for the first message
PoolGoneWhileWaiting ==
    /\ sock.phase = "waiting"
    /\ channel.sent = <<>>
    /\ "backend" \notin channel.senders

\* C18: if the channel is closed before a first message arrives, because the
\* session pool no longer exists, the client is sent a fatal_error frame of
\* the kind pool_closed and the socket is closed with 1011.
C18_PoolClosedReported ==
    PoolGoneWhileWaiting ~>
        (sock.frames = <<FatalFrame("pool_closed", "null")>>
            /\ sock.close = Close(PoolClosed, ""))

\* the task holds a sender of the channel while it waits, so the channel is
\* never closed under it, and the close of 1011 is never sent
NeverPoolClosed ==
    /\ sock.phase = "waiting" => "connector" \in channel.senders
    /\ sock.phase = "waiting" => into_future(channel).tag = "NotReady" \/ channel.queue # <<>>
    /\ sock.close # Close(PoolClosed, "")

(***************************************************************************)
(* Properties of the Watcher's reconnect (SpecWatcher).                    *)
(***************************************************************************)
\* the step is the Watcher of node Me handling Reconnect(cfg)
ReconnectStep == last'.node = Me /\ last'.item.kind = "Reconnect"

\* the ServerIds of the peers that were Connected and are not in cfg
Unconfigured(cfg) ==
    {peers[Me][p].server_id :
        p \in {q \in DOMAIN peers[Me] \ cfg.peers : peers[Me][q].tag = "Connected"}}

\* C19: on Reconnect(cfg) every peer whose name is not in cfg.peers is dropped
\* from peers, and the link of each such peer that was Connected(server_id)
\* is removed with it; a peer that is still configured is not dropped, and no
\* other link is removed.
C19_ReconnectDropsUnconfigured ==
    [][ReconnectStep =>
          LET cfg == last'.item.cfg
          IN  /\ DOMAIN peers[Me] \cap DOMAIN peers'[Me] = DOMAIN peers[Me] \cap cfg.peers
              /\ DOMAIN peers'[Me] \cap (DOMAIN peers[Me] \ cfg.peers) = {}
              /\ DOMAIN links'[Me] = DOMAIN links[Me] \ Unconfigured(cfg)
              /\ \A r \in DOMAIN links'[Me] : links'[Me][r] = links[Me][r]]_vars

\* a Reconnect with no peer configured was handled on a node that had
\* attached channels it dialled, all still open: its peers and links are gone
C19_Witness ==
    /\ Handled("Reconnect")
    /\ last.item.cfg.peers = {}
    /\ Len(chans) = MaxChans
    /\ \A c \in 1..Len(chans) : chans[c].alive /\ chans[c].outbound
    /\ peers[Me] = EmptyMap
    /\ links[Me] = EmptyMap

\* ---- The dials of reconnect as time passes (SpecTimed) ----

\* the peer is in the table in state Connected
IsConnected(p) == p \in DOMAIN peers[Me] /\ peers[Me][p].tag = "Connected"

\* the peer is in the table in state Connecting
IsConnecting(p) == p \in DOMAIN peers[Me] /\ peers[Me][p].tag = "Connecting"

\* what a Reconnect step leaves of the table: the dialled peers are marked
\* Connecting(now + reconnect_timeout), the other configured peers are as before
DialledMarked(cfg) ==
    /\ \A p \in last'.dialled : peers'[Me][p] = Connecting(now + cfg.reconnect_timeout)
    /\ \A p \in (cfg.peers \cap DOMAIN peers[Me]) \ last'.dialled : peers'[Me][p] = peers[Me][p]

\* C20 as stated: on Reconnect(cfg) at time now a dial is started for exactly
\* the configured peers that are not Connected and not Connecting with
\* deadline > now, and each dialled peer is marked Connecting(now + reconnect_timeout).
C20_DialsUnlessConnectedOrPending ==
    [][ReconnectStep =>
          LET cfg == last'.item.cfg
          IN  /\ last'.dialled =
                    {p \in cfg.peers :
                        /\ ~IsConnected(p)
                        /\ ~(IsConnecting(p) /\ peers[Me][p].deadline > now)}
              /\ DialledMarked(cfg)]_vars

\* C20: on Reconnect(cfg) at time now a dial is started for exactly the
\* configured peers that are not Connected with their link still in links after
\* the unconfigured peers were dropped, and not Connecting with deadline >= now;
\* each dialled peer is marked Connecting(now + reconnect_timeout) and every
\* other configured peer keeps its state.
C20_DialsUnlessLinkedOrPending ==
    [][ReconnectStep =>
          LET cfg == last'.item.cfg
          IN  /\ last'.dialled =
                    {p \in cfg.peers :
                        /\ ~(IsConnected(p) /\ peers[Me][p].server_id \in DOMAIN links'[Me])
                        /\ ~(IsConnecting(p) /\ peers[Me][p].deadline >= now)}
              /\ DialledMarked(cfg)]_vars

\* a Reconnect has dialled again a Connecting peer whose deadline had passed
\* and has left alone a Connecting peer whose deadline is this very instant
C20_Witness ==
    /\ Handled("Reconnect")
    /\ \E p \in last.dialled :
          /\ p \in DOMAIN last.before
          /\ last.before[p].tag = "Connecting"
          /\ last.before[p].deadline < now
          /\ peers[Me][p] = Connecting(now + last.item.cfg.reconnect_timeout)
    /\ \E q \in last.item.cfg.peers \ last.dialled :
          /\ q \in DOMAIN last.before
          /\ last.before[q] = Connecting(now)
          /\ peers[Me][q] = Connecting(now)

\* ---- The rebuilding of a lost link (SpecRebuild) ----

\* the Watcher holds the configured peer as Connected and has no link for it:
\* remote_send has removed the link after a send error
LinkLost ==
    /\ RebuildPeer \in DOMAIN peers[Me]
    /\ peers[Me][RebuildPeer] = Connected(RebuildServer)
    /\ RebuildServer \notin DOMAIN links[Me]

\* the Watcher has a link to the peer whose channel is alive
LinkLive ==
    /\ RebuildServer \in DOMAIN links[Me]
    /\ chans[links[Me][RebuildServer]].alive

\* C21: when the link to a still-configured peer has been removed after a send
\* error, the next Reconnect the Watcher handles dials that peer, and with
\* ticks arriving and dials succeeding the peer has a live link again.
C21_LinkRebuilt ==
    /\ [][(ReconnectStep /\ LinkLost) => RebuildPeer \in last'.dialled]_vars
    /\ (LinkLost ~> LinkLive)

\* the link of the first connection was removed when a send to it failed, and
\* the handshake of a second dial has put a live link in its place
C21_Witness ==
    /\ Handled("Attach")
    /\ last.before[RebuildPeer].tag = "Connecting"
    /\ Len(chans) >= 2
    /\ ~chans[1].alive
    /\ links[Me] = (RebuildServer :> Len(chans))
    /\ LinkLive

\* ---- Two nodes dialling each other (SpecCluster) ----

\* of the ServerIds "A" and "B", the lexicographically smaller and the other
LowerNode == "A"
HigherNode == "B"

\* node n has dialled node m and the handshake has ended
Dialled(n, m) ==
    \E c \in 1..Len(chans) : chans[c].owner = n /\ chans[c].dest = m /\ chans[c].outbound

\* the Watchers have handled every Attach they were sent
AttachesHandled == \A n \in Nodes : \A i \in 1..Len(rx[n]) : rx[n][i].kind # "Attach"

\* the channels c and d are the two ends of one connection: Connect makes
\* them together, the dialling end first
SameConnection(c, d) == \E k \in 1..Len(chans) : k % 2 = 1 /\ {c, d} = {k, k + 1}

\* C22: when two nodes have dialled each other and both links to the same
\* ServerId are attached, the node with the smaller ServerId has given up its
\* outbound link: both nodes use the one connection the other node dialled.
C22_DialTieBreak ==
    (/\ Dialled(LowerNode, HigherNode) /\ Dialled(HigherNode, LowerNode)
     /\ AttachesHandled)
        => /\ ~chans[links[LowerNode][HigherNode]].outbound
           /\ chans[links[HigherNode][LowerNode]].outbound
           /\ SameConnection(links[LowerNode][HigherNode], links[HigherNode][LowerNode])

\* what attach does of the two links: each node sends on the link it attached last
LastAttachedWins ==
    AttachesHandled =>
        \A n \in Nodes : \A m \in Nodes \ {n} :
            (\E c \in 1..Len(chans) : chans[c].owner = n /\ chans[c].dest = m)
                => links[n][m] = CHOOSE c \in 1..Len(chans) :
                        /\ chans[c].owner = n /\ chans[c].dest = m
                        /\ \A d \in 1..Len(chans) :
                              (chans[d].owner = n /\ chans[d].dest = m) => d <= c

\* ---- The reconnect loops across reloads (SpecReload) ----

\* the configuration of the last update
CurrentCfg == loops[reconnect_shutter[1]].cfg

\* C23: each update stops the loop before it and installs a new one: at most
\* one loop has not been told to exit, and every Reconnect the Watcher handles
\* after an update carries the configuration of that update.
C23_ReconnectCarriesLastUpdate ==
    /\ [](Cardinality({i \in 1..Len(loops) : loops[i].running /\ ~loops[i].shut}) <= 1)
    /\ [][(ReconnectStep /\ reconnect_shutter # None)
              => last'.item.cfg = CurrentCfg]_vars

\* every loop but the one of the last update has been sent its shutter, and
\* the Reconnects in the queue carry the configuration of some update
OnlyLastLoopUnsignalled ==
    /\ \A i \in 1..Len(loops) : (i # Len(loops)) => loops[i].shut
    /\ (loops # <<>>) => (reconnect_shutter = Some(Len(loops)) /\ ~loops[Len(loops)].shut)
    /\ \A k \in 1..Len(rx[Me]) :
          rx[Me][k].kind = "Reconnect" /\ \E i \in 1..Len(loops) : rx[Me][k].cfg = loops[i].cfg

(***************************************************************************)
(* Properties of the Processor (SpecProcessor).                            *)
(***************************************************************************)
\* the connections, Pending or Active, of the pool of node Me
Conns == pool[Me].connections

\* the Processor handled an Action of this type in the last step
PoolHandled(type) == plast.node = Me /\ plast.action.type = type

\* C24: after any sequence of Processor Actions, a Cid is in topics[t] if and
\* only if t is in the topics of its connection, and in the subscribers of a
\* lattice if and only if the namespace is in the lattices of its connection,
\* the promotion of a Pending connection to Active included.
C24_IndexesAgree ==
    \A cid \in PoolCids :
        /\ \A t \in Topics :
              (cid \in pool[Me].topics[t]) <=> (cid \in DOMAIN Conns /\ t \in Conns[cid].topics)
        /\ \A ns \in Namespaces :
              (cid \in pool[Me].lattices[ns].subscribers)
                  <=> (cid \in DOMAIN Conns /\ ns \in Conns[cid].lattices)

\* a Pending connection with a topic and a lattice has been promoted
C24_Witness ==
    /\ PoolHandled("Associate")
    /\ LET cid == plast.action.conn_id
       IN  /\ cid \in DOMAIN plast.before.connections
           /\ plast.before.connections[cid].tag = "Pending"
           /\ plast.before.connections[cid].topics # {}
           /\ plast.before.connections[cid].lattices # {}
           /\ Conns[cid].tag = "Active"
           /\ cid \in pool[Me].topics[<<"a">>]
           /\ cid \in pool[Me].lattices[<<"chat">>].subscribers

\* the Cid is in none of the indexes of the pool of node Me
InNoIndex(cid) ==
    /\ cid \notin DOMAIN Conns
    /\ \A t \in Topics : cid \notin pool[Me].topics[t]
    /\ \A ns \in Namespaces : cid \notin pool[Me].lattices[ns].subscribers
    /\ cid \notin pool[Me].watchers
    /\ \A s \in SessionIds : cid \notin pool[Me].sessions[s]

\* the connection was Active before the last step
WasActive(cid) ==
    cid \in DOMAIN plast.before.connections /\ plast.before.connections[cid].tag = "Active"

\* C25: after Disconnect(cid) the Cid is in no index; when it was the last
\* Cid of its SessionId a user-offline update is emitted, and when other Cids
\* of the session remain none is.
C25_DisconnectClearsIndexes ==
    PoolHandled("Disconnect") =>
        LET cid == plast.action.conn_id
        IN  /\ InNoIndex(cid)
            /\ WasActive(cid) =>
                  LET sid == plast.before.connections[cid].session_id
                  IN  IF plast.before.sessions[sid] \ {cid} = {}
                      THEN pool[Me].emitted = <<UserOffline(sid)>>
                      ELSE pool[Me].emitted = <<>>

\* a connection that was in every index, the last of its session, has been
\* disconnected while the other connection of the pool is still there
C25_Witness ==
    /\ PoolHandled("Disconnect")
    /\ LET cid == plast.action.conn_id
           b == plast.before
       IN  /\ WasActive(cid)
           /\ cid \in b.topics[<<"a">>]
           /\ cid \in b.lattices[<<"chat">>].subscribers
           /\ cid \in b.watchers
           /\ b.sessions["u1"] = {cid}
           /\ Conns # EmptyMap
           /\ pool[Me].emitted = <<UserOffline("u1")>>

(***************************************************************************)
(* Properties of Subscribe and Unsubscribe (SpecSubscribe).                *)
(***************************************************************************)
\* the state of the pool with what the last Action emitted left out
Indexes(s) == [s EXCEPT !.emitted = <<>>]

\* the last two Actions were Subscribe(cid, t) and then Unsubscribe(cid, t)
SubscribeThenUnsubscribe ==
    /\ pprev.node = Me /\ pprev.action.type = "Subscribe"
    /\ PoolHandled("Unsubscribe")
    /\ plast.action.conn_id = pprev.action.conn_id
    /\ plast.action.name = pprev.action.name

\* topics and the topics of the connection are what they were before the Subscribe
Restored ==
    LET cid == pprev.action.conn_id
    IN  /\ pool[Me].topics = pprev.before.topics
        /\ (cid \in DOMAIN Conns) => Conns[cid].topics = pprev.before.connections[cid].topics

\* Subscribe and Unsubscribe are idempotent, and a Subscribe for a Cid that
\* is not in connections changes nothing
IdempotentAndDropped ==
    /\ (/\ plast.node = Me /\ pprev.node = Me
        /\ plast.action.type \in {"Subscribe", "Unsubscribe"}
        /\ plast.action = pprev.action)
           => Indexes(pool[Me]) = Indexes(plast.before)
    /\ (PoolHandled("Subscribe") /\ plast.action.conn_id \notin DOMAIN plast.before.connections)
           => Indexes(pool[Me]) = Indexes(plast.before)

\* C26 as stated: Subscribe(cid, t) followed by Unsubscribe(cid, t) restores
\* topics and connections[cid].topics to their state before the Subscribe,
\* whatever that state was; each is idempotent; a Subscribe for an unknown
\* Cid changes nothing.
C26_RoundTripAlways ==
    /\ SubscribeThenUnsubscribe => Restored
    /\ IdempotentAndDropped

\* C26: Subscribe(cid, t) followed by Unsubscribe(cid, t) restores topics and
\* connections[cid].topics to their state before the Subscribe when the Cid
\* was not subscribed to t before it; each is idempotent; a Subscribe for an
\* unknown Cid changes nothing.
C26_RoundTripOfNewSubscription ==
    /\ (/\ SubscribeThenUnsubscribe
        /\ pprev.action.conn_id \notin pprev.before.topics[pprev.action.name])
           => Restored
    /\ IdempotentAndDropped

\* a connection that was not subscribed has been subscribed and unsubscribed,
\* and was in the topic index in between
C26_Witness ==
    /\ SubscribeThenUnsubscribe
    /\ LET cid == pprev.action.conn_id
           t == pprev.action.name
       IN  /\ cid \in DOMAIN pprev.before.connections
           /\ cid \notin pprev.before.topics[t]
           /\ cid \in plast.before.topics[t]
           /\ t \in plast.before.connections[cid].topics
           /\ cid \notin pool[Me].topics[t]

(***************************************************************************)
(* Properties of the lattice merge on two nodes (SpecLattice).             *)
(***************************************************************************)
\* the values node n holds for the namespace chat
ChatValues(n) == pool[n].lattices[<<"chat">>].values

\* C27: the state of a namespace depends on the set of Deltas merged into it
\* only, not on their order and not on how often each was merged: two nodes
\* that have merged the same Deltas hold the same values.
C27_LatticeConverges ==
    \A n \in Nodes : \A m \in Nodes :
        (applied[n].deltas = applied[m].deltas) => ChatValues(n) = ChatValues(m)

\* both nodes have merged all the Deltas, the registers with equal timestamps
\* among them, and the Delta that came last is not the same on the two
C27_Witness ==
    /\ applied["A"].deltas = LatticeDeltas
    /\ applied["B"].deltas = LatticeDeltas
    /\ applied["A"].last = "{\"k2\":{\"status_register\":[1,\"x\"]}}"
    /\ applied["B"].last = "{\"k1\":{\"msg_counter\":5}}"
    /\ ChatValues("A") = ("k1" :> ("msg_counter" :> 5 @@ "tags_set" :> {"x", "y"})
                            @@ "k2" :> ("status_register" :> Reg(2, "x")))

(***************************************************************************)
(* Properties of one merge and of its fan-out (SpecFanOut).                *)
(***************************************************************************)
\* the Processor of Me has just handled a Lattice Action
LatticeHandled == plast.node = Me /\ plast.action.type = "Lattice"

\* the values of chat before and after the Action, and the Delta it carried
OldValues == plast.before.lattices[<<"chat">>].values
NewValues == pool[Me].lattices[<<"chat">>].values
LastDelta == ParseDelta(plast.action.data)

\* the (key, field) pairs of a map of Values
Fields(values) == UNION {{<<k, f>> : f \in DOMAIN values[k]} : k \in DOMAIN values}

\* every field of lower is in upper, with a value that dominates it
DominatesAll(upper, lower) ==
    \A kf \in Fields(lower) :
        /\ kf \in Fields(upper)
        /\ Dominates(FieldKind(kf[2]), upper[kf[1]][kf[2]], lower[kf[1]][kf[2]])

\* the fields the merge has raised: new ones, and those above what was held
Increased ==
    {kf \in Fields(NewValues) :
        kf \notin Fields(OldValues) \/ NewValues[kf[1]][kf[2]] # OldValues[kf[1]][kf[2]]}

\* the connections that were Active subscribers of chat when the Action came
ActiveSubscribers ==
    {c \in plast.before.lattices[<<"chat">>].subscribers :
        c \in DOMAIN plast.before.connections /\ plast.before.connections[c].tag = "Active"}

\* what the Action has put on the channel of c: the first message after
\* those the channel held
SentTo(c) ==
    LET before == plast.before.channels[c]
        after == pool[Me].channels[c]
    IN  IF Len(after) > Len(before) THEN <<after[Len(before) + 1]>> ELSE <<>>

\* C28: a merge is monotone and its fan-out minimal: the merged values
\* dominate the values held before and the Delta's, field by field; the diff
\* sent to a subscriber holds exactly the fields that rose, with their merged
\* values; and a Delta that raises nothing, the empty one included, leaves
\* the diff empty, so that nothing of it reaches the subscriber.
C28_MonotoneMinimalDiff ==
    LatticeHandled =>
        /\ DominatesAll(NewValues, OldValues)
        /\ DominatesAll(NewValues, LastDelta)
        /\ (LastDelta = EmptyMap) => Increased = {}
        /\ \A c \in ActiveSubscribers :
              IF Increased = {} THEN SentTo(c) = <<>>
              ELSE /\ SentTo(c) # <<>>
                   /\ SentTo(c)[1].type = "Lattice"
                   /\ SentTo(c)[1].name = <<"chat">>
                   /\ \A k \in DOMAIN SentTo(c)[1].diff : SentTo(c)[1].diff[k] # EmptyMap
                   /\ Fields(SentTo(c)[1].diff) = Increased
                   /\ \A kf \in Increased :
                         SentTo(c)[1].diff[kf[1]][kf[2]] = NewValues[kf[1]][kf[2]]

\* a Delta with a counter below the one held and a set with a new member has
\* been merged, and the subscriber was sent the set only
C28_Witness ==
    /\ LatticeHandled
    /\ plast.action.data = "{\"k1\":{\"msg_counter\":3,\"tags_set\":[\"y\"]}}"
    /\ OldValues = ("k1" :> ("msg_counter" :> 5 @@ "tags_set" :> {"x"}))
    /\ Subscriber \in ActiveSubscribers
    /\ SentTo(Subscriber) = <<MsgLattice(<<"chat">>, "k1" :> ("tags_set" :> {"x", "y"}))>>

(***************************************************************************)
(* Properties of two nodes posted the same Deltas (SpecConverge).          *)
(***************************************************************************)
\* node n has been posted both Deltas and its Processor has handled all it
\* was sent
BothHandled(n) == applied[n].posted = ConvergeDeltas /\ processor[n] = <<>>

\* the two nodes were posted the Deltas in opposite orders
OppositeOrders ==
    /\ \A n \in Nodes : BothHandled(n) /\ applied[n].deltas = ConvergeDeltas
    /\ applied["A"].last # applied["B"].last

\* the lattice message that carries msg_counter: v for k1
CounterDiff(v) == MsgLattice(<<"chat">>, "k1" :> ("msg_counter" :> v))

\* node n holds msg_counter = 5 for k1
HoldsFive(n) == ChatValues(n) = ("k1" :> ("msg_counter" :> 5))

\* C29 as stated: posted the two Deltas in opposite orders, both nodes end
\* with k1.msg_counter = 5 and each has sent its subscriber exactly one
\* lattice message, which carries msg_counter: 5.
C29_OneFanOutEach ==
    OppositeOrders =>
        \A n \in Nodes : HoldsFive(n) /\ applied[n].sent = <<CounterDiff(5)>>

\* C29: a node that has been posted the two Deltas and has handled them ends
\* with k1.msg_counter = 5; if it was posted 5 first it has sent its
\* subscriber one lattice message, carrying msg_counter: 5, and if it was
\* posted 3 first it has sent two, carrying msg_counter: 3 and then
\* msg_counter: 5.
C29_FiveFannedOutOnce ==
    \A n \in Nodes :
        BothHandled(n) =>
            /\ HoldsFive(n)
            /\ applied[n].deltas = ConvergeDeltas
            /\ applied[n].sent = IF applied[n].last = Counter3
                                 THEN <<CounterDiff(5)>>
                                 ELSE <<CounterDiff(3), CounterDiff(5)>>

\* A was posted 5 and then 3, B 3 and then 5, and both have handled them
C29_Witness ==
    /\ OppositeOrders
    /\ applied["A"].last = Counter3
    /\ applied["A"].sent = <<CounterDiff(5)>>
    /\ applied["B"].sent = <<CounterDiff(3), CounterDiff(5)>>
    /\ HoldsFive("A") /\ HoldsFive("B")

(***************************************************************************)
(* Properties of a connection whose writer falls behind (SpecProcessor).   *)
(***************************************************************************)
\* the Processor of Me has just handled a Publish
PublishHandled == plast.node = Me /\ plast.action.type = "Publish"

\* the connection was an Active subscriber of the topic published to
WasSubscribed(cid) == WasActive(cid) /\ cid \in plast.before.topics[plast.action.name]

\* the Publish found the channel of the connection at the high-water mark
WasFull(cid) == Len(plast.before.channels[cid]) >= HighWaterMark

\* the channel of the connection before and after the Publish
ChannelBefore(cid) == plast.before.channels[cid]
ChannelAfter(cid) == pool[Me].channels[cid]

\* C30: a Publish that leaves more than the high-water mark undelivered on
\* the channel of a subscriber ends that channel with StopSock(Overloaded)
\* and removes the connection from every index, the Cids of its SessionId
\* among them; every other subscriber is sent the message all the same; and
\* a Publish puts nothing on the channel of a connection that was removed.
C30_SlowClientDropped ==
    PublishHandled =>
        \A cid \in DOMAIN plast.before.channels :
            IF WasSubscribed(cid)
            THEN IF WasFull(cid)
                 THEN /\ Len(ChannelAfter(cid)) > Len(ChannelBefore(cid))
                      /\ SubSeq(ChannelAfter(cid), 1, Len(ChannelBefore(cid))) = ChannelBefore(cid)
                      /\ ChannelAfter(cid)[Len(ChannelAfter(cid))] = MsgStopSock("Overloaded")
                      /\ InNoIndex(cid)
                      /\ cid \notin pool[Me].sessions[plast.before.connections[cid].session_id]
                 ELSE /\ ChannelAfter(cid) =
                            Append(ChannelBefore(cid),
                                   MsgPublish(plast.action.name, plast.action.data))
                      /\ cid \in DOMAIN Conns
            ELSE (cid \notin DOMAIN plast.before.connections) =>
                     ChannelAfter(cid) = ChannelBefore(cid)

\* a Publish has found the channel of connection 0 full and that of
\* connection 1 not: 0 was stopped and removed, 1 was sent the message; the
\* two were the Cids of one SessionId, which is left with 1
C30_Witness ==
    /\ PublishHandled
    /\ WasSubscribed(0) /\ WasFull(0)
    /\ WasSubscribed(1) /\ ~WasFull(1)
    /\ plast.before.sessions["u1"] = {0, 1}
    /\ pool[Me].sessions["u1"] = {1}
    /\ 0 \notin DOMAIN Conns
    /\ ChannelAfter(0)[Len(ChannelAfter(0))] = MsgStopSock("Overloaded")
    /\ ChannelAfter(1)[Len(ChannelAfter(1))] = MsgPublish(<<"a">>, "m")

\* a Publish has come after a subscriber was removed as Overloaded, with its
\* channel still holding the StopSock
C30_WitnessLater ==
    /\ PublishHandled
    /\ \E cid \in DOMAIN plast.before.channels :
          /\ cid \notin DOMAIN plast.before.connections
          /\ ChannelBefore(cid) # <<>>
          /\ ChannelBefore(cid)[Len(ChannelBefore(cid))] = MsgStopSock("Overloaded")

(***************************************************************************)
(* Properties of the authorization timeout (SpecAuth).                     *)
(***************************************************************************)
\* the authorization timeout of a connection of Me has just passed
TimeoutPassed == plast.node = Me /\ plast.action.type = "AuthTimeout"

\* C31: a connection is Pending only up to the deadline of its authorization
\* timeout; when the timeout passes with the connection still Pending its
\* channel is sent FatalError and StopSock(AuthTimeout) and the connection
\* is removed; when it passes on a connection that was associated, nothing
\* is sent and the connection stays.
C31_AuthTimeoutClosesPending ==
    /\ \A cid \in DOMAIN Conns :
          (Conns[cid].tag = "Pending") =>
              cid \in DOMAIN timers[Me] /\ now <= timers[Me][cid]
    /\ TimeoutPassed =>
          LET cid == plast.action.conn_id
          IN  IF cid \in DOMAIN plast.before.connections
                  /\ plast.before.connections[cid].tag = "Pending"
              THEN /\ pool[Me].channels[cid] =
                          plast.before.channels[cid] \o
                              <<MsgFatalError("AuthTimeout"), MsgStopSock("AuthTimeout")>>
                   /\ InNoIndex(cid)
              ELSE Indexes(pool[Me]) = Indexes(plast.before)

\* the timeout of a connection that was made at time 0 and never associated
\* has passed at time 1
C31_Witness ==
    /\ TimeoutPassed
    /\ now = AuthTimeout
    /\ plast.action.conn_id \in DOMAIN plast.before.connections
    /\ plast.before.connections[plast.action.conn_id].tag = "Pending"
    /\ plast.action.conn_id \notin DOMAIN Conns

\* the timeout has passed on a connection that had been associated
C31_WitnessAssociated ==
    /\ TimeoutPassed
    /\ WasActive(plast.action.conn_id)
    /\ plast.action.conn_id \in DOMAIN Conns

(***************************************************************************)
(* Properties of Cid::new (SpecCid).                                       *)
(***************************************************************************)
\* C32: two calls of Cid::new, of one thread or of two, never return the
\* same Cid, and of two calls of one thread the later returns the greater.
C32_CidsDistinctAndIncreasing ==
    /\ \A t \in Threads : \A u \in Threads :
          \A i \in 1..Len(callers[t].cids) : \A j \in 1..Len(callers[u].cids) :
              (t # u \/ i # j) => callers[t].cids[i] # callers[u].cids[j]
    /\ \A t \in Threads :
          \A i \in 1..Len(callers[t].cids) : \A j \in 1..Len(callers[t].cids) :
              (i < j) => callers[t].cids[i] < callers[t].cids[j]

\* two threads were in Cid::new at once, and every thread has made its calls
C32_Witness ==
    /\ \A t \in Threads : Len(callers[t].cids) = MaxCalls
    /\ callers["t1"].cids[1] = 1
    /\ callers["t2"].cids[1] = 0
    /\ callers["t1"].cids[2] > callers["t3"].cids[1]
    /\ callers["t3"].cids[2] > callers["t1"].cids[2]

(***************************************************************************)
(* Properties of PUT /v1/connection/{cid}/lattices/{ns} (SpecAttach).      *)
(***************************************************************************)
\* what a step has added to a queue
Added(before, after) == SubSeq(after, Len(before) + 1, Len(after))

\* the step is a request accepted by the control plane of Me
PutAccepted == hist' # hist

\* the request has put the Lattice on the Processor's queue, with the Attach
\* behind it if the connection is of this node, and the Lattice and then
\* the Attach on the replication queue
LatticeAheadOfAttach ==
    LET local == Added(processor[Me], processor'[Me])
        remote == Added(rx[Me], rx'[Me])
    IN  /\ Len(local) \in {1, 2}
        /\ local[1].action.type = "Lattice"
        /\ (Len(local) = 2) => local[2].action.type = "Attach"
        /\ Len(remote) = 2
        /\ remote[1].msg.action.type = "Lattice"
        /\ remote[1].msg.action.data = local[1].action.data
        /\ remote[2].msg.action.type = "Attach"

\* the Processor of node n has just handled the Attach of its connection,
\* which was Active
AttachHandled(n) ==
    /\ plast.node = n /\ plast.action.type = "Attach"
    /\ plast.action.conn_id \in DOMAIN plast.before.connections
    /\ plast.before.connections[plast.action.conn_id].tag = "Active"

\* the snapshot the Attach has put on the channel of the connection
Snapshot(n) ==
    LET q == pool[n].channels[plast.action.conn_id] IN q[Len(q)]

\* on the node that owns the connection the snapshot holds the Delta of the
\* request, or more
SnapshotIncludesDelta ==
    \A n \in Nodes :
        AttachHandled(n) =>
            /\ pool[n].channels[plast.action.conn_id] # <<>>
            /\ Snapshot(n).type = "Lattice"
            /\ applied[n].posted # {}
            /\ \A d \in applied[n].posted : DominatesAll(Snapshot(n).diff, ParseDelta(d))

\* C33: a PUT /v1/connection/{cid}/lattices/{ns} with a valid Delta puts the
\* Lattice ahead of the Attach on the Processor's queue and on the
\* replication queue, and the snapshot the Attach delivers, on the node of
\* the request and on the node that owns the connection, holds the Delta.
C33_LatticeBeforeAttach ==
    /\ [][PutAccepted => LatticeAheadOfAttach]_vars
    /\ []SnapshotIncludesDelta

\* the connection of B was attached by a request sent to A, after that of A,
\* and its snapshot holds the Delta that the request carried
C33_Witness ==
    /\ AttachHandled("B")
    /\ applied["B"].posted = {Counter3}
    /\ applied["A"].posted = {Counter5}
    /\ Subscriber \in pool["A"].lattices[<<"chat">>].subscribers
    /\ Snapshot("B").diff = ("k1" :> ("msg_counter" :> 3))

(***************************************************************************)
(* Properties of a connection that waits to be authorized (SpecPending).   *)
(***************************************************************************)
\* the connection was Pending before the last step
WasPending(cid) ==
    cid \in DOMAIN plast.before.connections /\ plast.before.connections[cid].tag = "Pending"

\* the Publishes of a buffer, as Connection::message sends them
Flushed(buffer) == [i \in 1..Len(buffer) |-> MsgPublish(buffer[i][1], buffer[i][2])]

\* the Publishes among the messages of a channel
PublishesOf(q) == SelectSeq(q, LAMBDA msg : msg.type = "Publish")

\* C34: a Publish for a connection that is Pending goes to its buffer and to
\* no channel; Associate puts the buffered messages on the channel of the
\* connection as Publishes, each once and in the order of the buffer; and a
\* Publish handled after that is put behind them.
C34_BufferFlushedInOrder ==
    /\ (PoolHandled("Publish") /\ WasPending(Subscriber)
            /\ Subscriber \in plast.before.topics[plast.action.name]) =>
          /\ pool[Me].channels = plast.before.channels
          /\ Conns[Subscriber].message_buffer =
                Append(plast.before.connections[Subscriber].message_buffer,
                       <<plast.action.name, plast.action.data>>)
    /\ (PoolHandled("Associate") /\ WasPending(Subscriber)) =>
          /\ PublishesOf(plast.before.channels[Subscriber]) = <<>>
          /\ PublishesOf(pool[Me].channels[Subscriber]) =
                Flushed(plast.before.connections[Subscriber].message_buffer)
          /\ Conns[Subscriber].message_buffer = <<>>
    /\ (PoolHandled("Publish") /\ WasSubscribed(Subscriber) /\ ~WasFull(Subscriber)) =>
          pool[Me].channels[Subscriber] =
              Append(plast.before.channels[Subscriber],
                     MsgPublish(plast.action.name, plast.action.data))

\* the connection has been associated with m2 and then m1 in its buffer
C34_Witness ==
    /\ PoolHandled("Associate") /\ WasPending(Subscriber)
    /\ plast.before.connections[Subscriber].message_buffer = <<<<<<"a">>, "m2">>, <<<<"a">>, "m1">>>>
    /\ PublishesOf(pool[Me].channels[Subscriber]) =
          <<MsgPublish(<<"a">>, "m2"), MsgPublish(<<"a">>, "m1")>>

BodyOnRoute(tags) ==
    /\ phase = "end"
    /\ ReqRoute.tag = "Query"
    /\ ReqRoute.route.tag \in tags
    /\ data # ""

\* C36: a request on a route that takes no body (Subscribe, Unsubscribe,
\* Detach, DetachUsers) that carries a body is answered 400 and emits no
\* local Action and no RemoteAction.
C36_BodyOnEmptyRouteRejected ==
    BodyOnRoute({"Subscribe", "Unsubscribe", "Detach", "UsersDetach"}) =>
        status = BadRequest /\ NothingEmitted

\* what the codec does: the body is tested on the subscription routes only
BodyRejectedOnSubscriptions ==
    /\ BodyOnRoute({"Subscribe", "Unsubscribe"}) => status = BadRequest /\ NothingEmitted
    /\ BodyOnRoute({"Detach", "UsersDetach"}) => status = NoContent /\ ~NothingEmitted

(***************************************************************************)
(* The peer table of the Watcher (SpecTimed).                              *)
(***************************************************************************)
\* C37: right after a Reconnect(cfg) the keys of peers are the peers of cfg,
\* and every entry is Connecting with a deadline that is not before now or
\* Connected(sid) with a link for sid; an Attach of an inbound connection
\* (peer = None) leaves peers as it was.
C37_PeerTable ==
    /\ Handled("Reconnect") =>
          /\ DOMAIN peers[Me] = last.item.cfg.peers
          /\ \A p \in DOMAIN peers[Me] :
                \/ IsConnecting(p) /\ peers[Me][p].deadline >= now
                \/ IsConnected(p) /\ peers[Me][p].server_id \in DOMAIN links[Me]
    /\ (Handled("Attach") /\ last.item.peer = None) => peers[Me] = last.before

\* a Reconnect has dropped a peer that is no longer configured and has kept
\* a Connected peer with its link
C37_Witness ==
    /\ Handled("Reconnect")
    /\ DOMAIN last.before \ DOMAIN peers[Me] # {}
    /\ \E p \in DOMAIN peers[Me] :
          /\ p \in DOMAIN last.before
          /\ last.before[p].tag = "Connected"
          /\ IsConnected(p)

\* an inbound connection was attached while a peer was in the table
C37_WitnessInbound ==
    /\ Handled("Attach") /\ last.item.peer = None
    /\ last.before # EmptyMap
    /\ last.item.server_id \in DOMAIN links[Me]

(***************************************************************************)
(* Properties of the Router (SpecRouter).                                  *)
(***************************************************************************)
\* Router::headers_received has returned
RouterDone == routing.pc \in {"handler", "error_page", "failed"}

\* C38: a request for which no route is found is answered with the error
\* page of 404, one that the authorizer of its route denies with that of
\* 403, and the handler of a route is called only for a request that has a
\* route and that the authorizer has allowed.
C38_RouterAnswers ==
    /\ routing.handler_called => routing.route # None /\ routing.check = "allow"
    /\ (RouterDone /\ routing.route = None) =>
          routing.pc = "error_page" /\ routing.status = NotFound
    /\ (RouterDone /\ routing.check = "deny") =>
          routing.pc = "error_page" /\ routing.status = Forbidden
    /\ (routing.pc = "handler") => routing.handler_called

\* a request with a route was denied by the authorizer and answered 403
C38_Witness ==
    /\ routing.pc = "error_page"
    /\ routing.route # None
    /\ routing.check = "deny"
    /\ routing.status = Forbidden
    /\ ~routing.handler_called

\* a request without a Host header was answered 404
C38_WitnessNoHost ==
    /\ routing.pc = "error_page"
    /\ routing.host = None
    /\ routing.status = NotFound

(***************************************************************************)
(* files.rs: where the path of a file lies.                                *)
(***************************************************************************)
\* the components of the relative path that path() joined to settings.path
RelComponents == SplitN(files.result.rel, Len(files.result.rel) + 1, Ord["/"])

ParentBytes == <<Ord["."], Ord["."]>>

\* the relative path stays under settings.path
InsideRoot ==
    /\ \A i \in 1..Len(RelComponents) : RelComponents[i] # ParentBytes
    /\ \A i \in 1..Len(files.result.rel) : files.result.rel[i] # 0
    /\ (Len(files.result.rel) > 0 => files.result.rel[1] # Ord["/"])

\* C39: path() either returns Err, which serve_dir answers with 403, or
\* returns settings.path joined with a relative path that has no ".."
\* component, no NUL byte and no leading "/", for every request path and
\* every Host header, with_hostname mode included.
C39_PathStaysInsideRoot ==
    /\ (files.result.tag = "Err" => files.status = Forbidden)
    /\ (files.result.tag = "Ok" => InsideRoot)
    /\ files.pc # "panicked"

\* A request whose path() returned Ok with a ".." component.
C39_EscapesByHost ==
    /\ files.result.tag = "Ok"
    /\ \E i \in 1..Len(RelComponents) : RelComponents[i] = ParentBytes

\* What path() does guarantee: apart from the name taken from the Host
\* header, the relative path stays inside the root; a ".." component is
\* the first one, in with_hostname mode.
PathInsideRootButHost ==
    /\ (files.result.tag = "Err" => files.status = Forbidden)
    /\ files.pc # "panicked"
    /\ files.result.tag = "Ok" =>
          /\ \A i \in 1..Len(files.result.rel) : files.result.rel[i] # 0
          /\ (Len(files.result.rel) > 0 => files.result.rel[1] # Ord["/"])
          /\ \A i \in 1..Len(RelComponents) :
                RelComponents[i] = ParentBytes =>
                    i = 1 /\ files.settings.mode = "with_hostname"

\* A request with percent-encoded dots that path() refused.
EncodedParentRefused ==
    /\ files.result.tag = "Err"
    /\ files.settings.mode # "with_hostname"
    /\ files.inp.path = Some(<<Slash, "%", "2", "e", "%", "2", "E">>)
====
